---------------------------- MODULE Spec2Model ----------------------------
\* A model of the postcard-lister pipelines:
\* - the metadata extractors (core/vision_handler.py,
\* core/enhanced_vision_handler.py, core/multi_llm_analyzer.py),
\* - the image variant builder (core/image_processor.py),
\* - the legacy GUI loop (app.py), the integrated GUI (app_integrated.py)
\* - the two command line front ends (cli/main.py,
\* cli/batch_processor.py),
\* - the WebSocket processing coroutine (websocket/github_cli_server.py),
\* - the category mapper, the consensus merger, the CSV row builder, the
\* vision composite and the ConfigManager, each called on its own.
\* Each entry point has its own specification; the variables of the
\* components it does not run keep their initial values.
EXTENDS Integers, Sequences, FiniteSets, TLC

\* Longest LLM response, in lexemes, that the extractor is checked on.
MaxLen == 4

\* Most ImageSets (front/back pairs) in one subfolder of the legacy GUI.
MaxPairs == 2

\* Depth at which the interpreter refuses a further nested call.
RecursionLimit == 3

--------------------------------------------------------------------------
\* Maps (Python dicts) are functions from keys to values.

EmptyMap == [k \in {} |-> ""]

Get(m, k, default) == IF k \in DOMAIN m THEN m[k] ELSE default

\* dict update: the entries of b win over those of a
Update(a, b) == [k \in DOMAIN a \cup DOMAIN b |-> IF k \in DOMAIN b THEN b[k] ELSE a[k]]

SetMin(S) == CHOOSE x \in S : \A y \in S : x <= y

SetMax(S) == CHOOSE x \in S : \A y \in S : x >= y

--------------------------------------------------------------------------
\* LLM responses.  A response is a sequence of lexemes: a code fence, the
\* word json, the two braces, P (the members "product_type": "Solar Panel",
\* "Title": "X"), C (the member "confidence": "high") and T (any other
\* text).  Lexemes carry no surrounding white space, so str.strip() leaves
\* them as they are.

\* the lexeme of three backquotes
Fence == "fence"

Lexemes == {Fence, "json", "{", "}", "P", "C", "T"}

Responses == UNION {[1..n -> Lexemes] : n \in 0..MaxLen}

StartsWith(s, t) == Len(s) >= 1 /\ s[1] = t

Positions(s, t) == {i \in 1..Len(s) : s[i] = t}

\* raw.split("```")[1] for a raw that starts with a fence: what lies between
\* the first fence and the next one (or the end)
SplitFence(raw) ==
    LET rest == Tail(raw)
        nxt  == Positions(rest, Fence)
    IN  IF nxt = {} THEN rest ELSE SubSeq(rest, 1, SetMin(nxt) - 1)

\* the fence-stripping of get_postcard_metadata and get_single_llm_metadata
StripFence(raw) ==
    IF StartsWith(raw, Fence)
    THEN LET inner == SplitFence(raw)
         IN  IF StartsWith(inner, "json") THEN Tail(inner) ELSE inner
    ELSE raw

PMembers == [k \in {"product_type", "Title"} |->
                IF k = "product_type" THEN <<"solar", "panel">> ELSE "X"]

CMembers == [k \in {"confidence"} |-> "high"]

\* json.loads: the parsed object, or a JSONDecodeError
JsonLoads(s) ==
    IF s = <<"{", "}">> THEN [ok |-> TRUE, val |-> EmptyMap]
    ELSE IF s = <<"{", "P", "}">> THEN [ok |-> TRUE, val |-> PMembers]
    ELSE IF s = <<"{", "C", "}">> THEN [ok |-> TRUE, val |-> CMembers]
    ELSE IF s = <<"{", "P", "C", "}">> THEN [ok |-> TRUE, val |-> Update(PMembers, CMembers)]
    ELSE [ok |-> FALSE, val |-> EmptyMap]

\* re.search with the greedy brace pattern and DOTALL: the text from the first
\* opening brace to the last closing brace
JsonMatch(resp) ==
    LET opens  == Positions(resp, "{")
        closes == Positions(resp, "}")
    IN  IF opens # {} /\ closes # {} /\ SetMin(opens) < SetMax(closes)
        THEN [found |-> TRUE, str |-> SubSeq(resp, SetMin(opens), SetMax(closes))]
        ELSE [found |-> FALSE, str |-> <<>>]

--------------------------------------------------------------------------
\* What one chat-completion attempt meets: the image cannot be read (no
\* request is sent), the request fails, or the model answers with raw.

Unreadable == [kind |-> "unreadable", raw |-> <<>>]

ApiFail == [kind |-> "apifail", raw |-> <<>>]

Answer(raw) == [kind |-> "response", raw |-> raw]

Outcomes == {Unreadable, ApiFail} \cup {Answer(r) : r \in Responses}

\* How a call ends: it returns meta or raises; req counts the chat-completion
\* requests it sent.
Return(meta, req) == [kind |-> "return", meta |-> meta, req |-> req]

Raise(req) == [kind |-> "raise", meta |-> EmptyMap, req |-> req]

\* Text values are lower-cased and cut into word parts (monocrystalline is
\* mono, crystal, line); the blank between two words is not kept.  A
\* substring test is a test for a contiguous run of parts; the empty text is
\* a substring of every text.
Contains(hay, needle) ==
    \E i \in 0..(Len(hay) - Len(needle)) : SubSeq(hay, i + 1, i + Len(needle)) = needle

Unknown == <<"unknown">>

\* CATEGORY_MAPPINGS, in insertion order: name, ebay_category_id, keywords
\* and the subcategories with their ids and keywords
CategoryTable ==
    << [name |-> <<"solar", "panel">>, id |-> "11700",
        keywords |-> << <<"solar">>, <<"panel">>, <<"photo", "volt", "aic">>, <<"pv">>,
                        <<"watt">>, <<"volt", "age">> >>,
        subs |-> << [id |-> "11701", keywords |-> << <<"mono">>, <<"mono", "crystal", "line">>,
                                                     <<"single", "crystal">> >>],
                    [id |-> "11702", keywords |-> << <<"poly">>, <<"poly", "crystal", "line">>,
                                                     <<"multi", "crystal">> >>],
                    [id |-> "11703", keywords |-> << <<"flexible">>, <<"bendable">>,
                                                     <<"thin", "film">> >>],
                    [id |-> "11704", keywords |-> << <<"bifacial">>, <<"double", "sided">>,
                                                     <<"dual", "face">> >>] >>],
       [name |-> <<"post", "card">>, id |-> "10398",
        keywords |-> << <<"post", "card">>, <<"vintage">>, <<"collectible">>,
                        <<"greeting", "card">> >>,
        subs |-> << [id |-> "10399", keywords |-> << <<"vintage">>, <<"antique">>, <<"old">> >>],
                    [id |-> "10400", keywords |-> << <<"modern">>, <<"contemporary">>,
                                                     <<"new">> >>],
                    [id |-> "10401", keywords |-> << <<"real", "photo">>, <<"rppc">>,
                                                     <<"photo", "graph">> >>] >>],
       [name |-> <<"electronic", "s">>, id |-> "58058",
        keywords |-> << <<"electronic">>, <<"device">>, <<"circuit">>, <<"component">> >>,
        subs |-> << [id |-> "58059", keywords |-> << <<"component">>, <<"resistor">>,
                                                     <<"capacitor">> >>],
                    [id |-> "58060", keywords |-> << <<"device">>, <<"gadget">>,
                                                     <<"equipment">> >>] >>] >>

\* the subcategories of a category whose keywords occur in the text
SubHits(cat, text) ==
    {i \in 1..Len(cat.subs) :
        \E k \in 1..Len(cat.subs[i].keywords) : Contains(text, cat.subs[i].keywords[k])}

\* enhance_with_category_detection: the first category whose name occurs in
\* the product type gives category_id and category_name, and the first of
\* its subcategories with a keyword in the subcategory text gives
\* subcategory_id; analysis_method is always set
EnhanceWithCategoryDetection(result) ==
    LET pt   == Get(result, "product_type", Unknown)
        hits == {i \in 1..Len(CategoryTable) : Contains(pt, CategoryTable[i].name)}
        best == CategoryTable[SetMin(hits)]
        sub  == Get(result, "subcategory", <<>>)
        cat  == IF hits = {} THEN result
                ELSE Update(result, [k \in {"category_id", "category_name"} |->
                                        IF k = "category_id" THEN best.id ELSE best.name])
        base == IF hits = {} \/ sub = <<>> \/ SubHits(best, sub) = {} THEN cat
                ELSE Update(cat, [k \in {"subcategory_id"} |->
                                     best.subs[SetMin(SubHits(best, sub))].id])
    IN  Update(base, [k \in {"analysis_method", "categories_available"} |->
                         IF k = "analysis_method" THEN "single_llm_enhanced"
                         ELSE [i \in 1..Len(CategoryTable) |-> CategoryTable[i].name]])

\* core/vision_handler.py get_postcard_metadata.  The value lists are read
\* before the try block; everything after it is inside.
VisionGetPostcardMetadata(dataFiles, o) ==
    IF ~dataFiles THEN Raise(0)
    ELSE IF o.kind = "unreadable" THEN Return(EmptyMap, 0)
    ELSE IF o.kind = "apifail" THEN Return(EmptyMap, 1)
    ELSE LET j == JsonLoads(StripFence(o.raw))
         IN  IF j.ok THEN Return(j.val, 1) ELSE Return(EmptyMap, 1)

\* A get_single_llm_metadata that hands back a placeholder map when
\* json.loads raises; C7 must tell it from the real one.
SingleWithPlaceholder(key, o) ==
    IF ~key THEN Raise(0)
    ELSE IF o.kind = "unreadable" THEN Return(EmptyMap, 0)
    ELSE IF o.kind = "apifail" THEN Return(EmptyMap, 1)
    ELSE LET j == JsonLoads(StripFence(o.raw))
         IN  IF j.ok THEN Return(EnhanceWithCategoryDetection(j.val), 1)
             ELSE Return([k \in {"product_type"} |-> Unknown], 1)

\* A get_single_llm_metadata that lets a failed request escape; C8 must
\* tell it from the real one.
SingleRaisingOnApiFailure(key, o) ==
    IF ~key THEN Raise(0)
    ELSE IF o.kind = "unreadable" THEN Return(EmptyMap, 0)
    ELSE IF o.kind = "apifail" THEN Raise(1)
    ELSE LET j == JsonLoads(StripFence(o.raw))
         IN  IF j.ok THEN Return(EnhanceWithCategoryDetection(j.val), 1)
             ELSE Return(EmptyMap, 1)

\* get_single_llm_metadata: the key check is before the try block
GetSingleLLMMetadata(key, o) ==
    IF ~key THEN Raise(0)
    ELSE IF o.kind = "unreadable" THEN Return(EmptyMap, 0)
    ELSE IF o.kind = "apifail" THEN Return(EmptyMap, 1)
    ELSE LET j == JsonLoads(StripFence(o.raw))
         IN  IF j.ok THEN Return(EnhanceWithCategoryDetection(j.val), 1)
             ELSE Return(EmptyMap, 1)

\* _fallback_parse: a category name found in the text gives the product type
FallbackParse(resp) ==
    [k \in {"product_type", "confidence"} |->
        IF k = "confidence" THEN "0.5"
        ELSE IF "P" \in {resp[i] : i \in 1..Len(resp)} THEN <<"solar", "panel">>
        ELSE Unknown]

\* what _parse_openai_response returns when json.loads raises
ParseFailureDefault ==
    [k \in {"product_type", "confidence"} |-> IF k = "confidence" THEN "0.1" ELSE Unknown]

\* _parse_openai_response (the category of the product type is left to
\* MapToCategory)
ParseOpenAIResponse(resp) ==
    LET m == JsonMatch(resp)
    IN  IF ~m.found THEN FallbackParse(resp)
        ELSE LET j == JsonLoads(m.str)
             IN  IF ~j.ok THEN ParseFailureDefault
                 ELSE [k \in {"product_type", "confidence", "title"} |->
                          IF k = "product_type" THEN Get(j.val, "product_type", Unknown)
                          ELSE IF k = "confidence" THEN Get(j.val, "confidence", "0.8")
                          ELSE Get(j.val, "title", "")]

\* confidences that format as a number
Numeric == {"0.1", "0.5", "0.8"}

\* analyze_product_with_consensus followed by the conversion of
\* get_enhanced_metadata (lines 46-63): no client or no result raises, and so
\* does formatting a confidence that is no number
MultiLLMMetadata(key, o) ==
    IF ~key THEN Raise(0)
    ELSE IF o.kind = "unreadable" THEN Raise(0)
    ELSE IF o.kind = "apifail" THEN Raise(1)
    ELSE LET parsed == ParseOpenAIResponse(o.raw)
         IN  IF parsed["confidence"] \notin Numeric THEN Raise(1)
             ELSE Return(Update(parsed,
                     [k \in {"analysis_method"} |-> "multi_llm_single_model"]), 1)

\* the try block of get_enhanced_metadata
EnhancedTry(multi, key, o) ==
    IF multi THEN MultiLLMMetadata(key, o) ELSE GetSingleLLMMetadata(key, o)

\* get_enhanced_metadata as its caller sees it: the except branch calls
\* get_postcard_metadata, which re-enters get_enhanced_metadata with
\* use_multi_llm off; without a key every such entry raises again, until the
\* interpreter refuses the next call and the error leaves through every
\* handler.
GetEnhancedMetadata(multi, key, o1, o2) ==
    LET first == EnhancedTry(multi, key, o1)
    IN  IF first.kind = "return" THEN first
        ELSE IF ~key THEN Raise(first.req)
        ELSE LET second == GetSingleLLMMetadata(key, o2)
             IN  [second EXCEPT !.req = first.req + second.req]


--------------------------------------------------------------------------
\* The Category Mapper of the multi-LLM path
\* (MultiLLMAnalyzer._map_to_category).

\* the score of one category: 10 when the product type occurs in the
\* category name, and 1 for every keyword that occurs in the product type
Score(productType, cat) ==
    (IF Contains(cat.name, productType) THEN 10 ELSE 0)
    + Cardinality({k \in 1..Len(cat.keywords) : Contains(productType, cat.keywords[k])})

\* best_match: the first category whose score exceeds every earlier best
\* score (0 when no category scores)
BestMatch(productType) ==
    LET scores == [i \in 1..Len(CategoryTable) |-> Score(productType, CategoryTable[i])]
        top    == SetMax({scores[i] : i \in 1..Len(CategoryTable)})
    IN  IF top = 0 THEN 0 ELSE SetMin({i \in 1..Len(CategoryTable) : scores[i] = top})

\* _map_to_category: the subcategory is looked for in the subcategory text
\* of the parsed data, never in the product type
MapToCategory(productType, parsedData) ==
    LET best == BestMatch(productType)
        cat  == CategoryTable[best]
        sub  == Get(parsedData, "subcategory", <<>>)
    IN  IF best = 0 THEN [category_id |-> "", subcategory_id |-> ""]
        ELSE [category_id |-> cat.id,
              subcategory_id |-> IF sub = <<>> \/ SubHits(cat, sub) = {} THEN ""
                                 ELSE cat.subs[SetMin(SubHits(cat, sub))].id]

\* the category_id of the AnalysisResult that _analyze_with_openai builds
\* from a response whose JSON object is parsed: _parse_openai_response
\* replaces whatever category_id the response carried by the mapped one
AnalysisCategory(parsed) ==
    LET info == MapToCategory(Get(parsed, "product_type", Unknown), parsed)
        data == [category_id |-> info.category_id]
    IN  [category_id |-> data.category_id, subcategory |-> Get(parsed, "subcategory", <<>>),
         product_type |-> Get(parsed, "product_type", Unknown)]

--------------------------------------------------------------------------
\* The Consensus Merger (MultiLLMAnalyzer._build_consensus).  A confidence
\* is a number of tenths: 5 stands for 0.5.  A weight is a fraction, kept as
\* numerator and denominator.

\* 1.0, in tenths
Unit == 10

Fraction(n, d) == [num |-> n, den |-> d]

\* a/d < b/d
Less(a, b, d) == IF d > 0 THEN a < b ELSE b < a

RECURSIVE SumOver(_, _)
\* the sum of the confidences of the results with index in S
SumOver(results, S) ==
    IF S = {} THEN 0
    ELSE LET i == CHOOSE j \in S : TRUE
         IN  results[i].confidence + SumOver(results, S \ {i})

\* total_weight, in tenths: the sum of the confidences, 1 when that is 0
TotalWeight(results) ==
    LET total == SumOver(results, DOMAIN results)
    IN  IF total = 0 THEN Unit ELSE total

\* the numerator of the accumulated weight of the value v of a field
Votes(results, field, v) ==
    SumOver(results, {i \in DOMAIN results : results[i][field] = v})

\* max(votes, key=votes.get): the value with the highest accumulated weight,
\* the one inserted first (met first in the results) among equals
VoteWinner(results, field) ==
    LET d     == TotalWeight(results)
        first == {i \in DOMAIN results :
                     \A j \in 1..(i - 1) : results[j][field] # results[i][field]}
        tops  == {i \in first :
                     \A j \in first : ~Less(Votes(results, field, results[i][field]),
                                            Votes(results, field, results[j][field]), d)}
    IN  results[SetMin(tops)][field]

\* max(results, key=confidence): the first result with the highest confidence
BestResult(results) ==
    results[SetMin({i \in DOMAIN results :
                       \A j \in DOMAIN results : results[j].confidence <= results[i].confidence})]

\* A merger that takes the product type of the best result in place of the
\* vote; C16 must tell it from the real one.
BuildConsensusFromBestResult(results) ==
    IF Len(results) = 1
    THEN [product_type |-> results[1].product_type, category_id |-> results[1].category_id,
          subcategory |-> results[1].subcategory,
          confidence |-> Fraction(results[1].confidence, Unit),
          metadata |-> results[1].metadata, consensus_method |-> "single_model"]
    ELSE [product_type |-> BestResult(results).product_type,
          category_id |-> VoteWinner(results, "category_id"),
          subcategory |-> BestResult(results).subcategory,
          confidence |-> Fraction(Votes(results, "product_type",
                                        VoteWinner(results, "product_type")),
                                  TotalWeight(results)),
          metadata |-> BestResult(results).metadata, consensus_method |-> "weighted_voting"]

\* A merger that normalises the confidence of a single result as well; C15
\* must tell it from the real one.
BuildConsensusNormalisingSingle(results) ==
    [product_type |-> VoteWinner(results, "product_type"),
     category_id |-> VoteWinner(results, "category_id"),
     subcategory |-> BestResult(results).subcategory,
     confidence |-> Fraction(Votes(results, "product_type",
                                   VoteWinner(results, "product_type")),
                             TotalWeight(results)),
     metadata |-> BestResult(results).metadata,
     consensus_method |-> IF Len(results) = 1 THEN "single_model" ELSE "weighted_voting"]

\* _build_consensus
BuildConsensus(results) ==
    IF Len(results) = 1
    THEN [product_type |-> results[1].product_type, category_id |-> results[1].category_id,
          subcategory |-> results[1].subcategory,
          confidence |-> Fraction(results[1].confidence, Unit),
          metadata |-> results[1].metadata, consensus_method |-> "single_model"]
    ELSE [product_type |-> VoteWinner(results, "product_type"),
          category_id |-> VoteWinner(results, "category_id"),
          subcategory |-> BestResult(results).subcategory,
          confidence |-> Fraction(Votes(results, "product_type",
                                        VoteWinner(results, "product_type")),
                                  TotalWeight(results)),
          metadata |-> BestResult(results).metadata, consensus_method |-> "weighted_voting"]

--------------------------------------------------------------------------
\* ConfigManager (app_integrated.py) and its JSON file.  Python values and
\* JSON texts are named by their type and content.

\* the default of ConfigManager.get: the empty string
EmptyStr == "str"

\* json.dump of one value: a tuple is written as an array, a set cannot be
\* written
JsonDumpValue(v) ==
    CASE v = "str" -> [ok |-> TRUE, text |-> "string"]
      [] v = "str test_value" -> [ok |-> TRUE, text |-> "string test_value"]
      [] v = "str sk" -> [ok |-> TRUE, text |-> "string sk"]
      [] v = "bool True" -> [ok |-> TRUE, text |-> "true"]
      [] v = "tuple (1, 2)" -> [ok |-> TRUE, text |-> "array [1, 2]"]
      [] v = "list [1, 2]" -> [ok |-> TRUE, text |-> "array [1, 2]"]
      [] OTHER -> [ok |-> FALSE, text |-> ""]

\* json.load of one value: an array is read as a list
JsonLoadValue(text) ==
    CASE text = "string" -> "str"
      [] text = "string test_value" -> "str test_value"
      [] text = "string sk" -> "str sk"
      [] text = "true" -> "bool True"
      [] OTHER -> "list [1, 2]"

\* json.dump of a key: the int 1 is written as the string 1
JsonDumpKey(k) == IF k = "int 1" THEN "1" ELSE k

\* json.dump of the config dict: the members of the object, or a TypeError
\* after the file has been opened for writing
JsonDumpObject(config) ==
    IF \E k \in DOMAIN config : ~JsonDumpValue(config[k]).ok
    THEN [ok |-> FALSE, obj |-> EmptyMap]
    ELSE [ok |-> TRUE,
          obj |-> [j \in {JsonDumpKey(k) : k \in DOMAIN config} |->
                      IF "int 1" \in DOMAIN config /\ j = "1"
                      THEN JsonDumpValue(config["int 1"]).text
                      ELSE JsonDumpValue(config[j]).text]]

\* json.load of the file: a dict with string keys
JsonLoadObject(obj) == [k \in DOMAIN obj |-> JsonLoadValue(obj[k])]

NoFile == [state |-> "missing", obj |-> EmptyMap]

\* the minimal configuration of load_config (of its keys, the API key)
MinimalConfig == [k \in {"openai_api_key"} |-> EmptyStr]

\* config/settings.template.json
TemplateConfig == [k \in {"openai_api_key"} |-> "str sk"]

\* A save_config that writes nothing; C20 must tell it from the real one.
SaveConfigNotWriting(config, file, disk) ==
    [file |-> file,
     wrote |-> IF disk = "ioerror" THEN "ioerror"
               ELSE IF JsonDumpObject(config).ok THEN "ok" ELSE "encoding"]

\* save_config: every exception is caught and printed.  The directory or
\* the file cannot be written: the file stays as it was.  A value cannot be
\* encoded: the file has been truncated and holds no complete JSON text.
SaveConfig(config, file, disk) ==
    IF disk = "ioerror" THEN [file |-> file, wrote |-> "ioerror"]
    ELSE IF JsonDumpObject(config).ok
         THEN [file |-> [state |-> "ok", obj |-> JsonDumpObject(config).obj], wrote |-> "ok"]
         ELSE [file |-> [state |-> "corrupt", obj |-> EmptyMap], wrote |-> "encoding"]

\* load_config: the file, else the template or the minimal configuration,
\* which is saved at once; a file that is no JSON gives the empty config
LoadConfig(file, template, disk) ==
    CASE file.state = "ok" -> [config |-> JsonLoadObject(file.obj), file |-> file]
      [] file.state = "corrupt" -> [config |-> EmptyMap, file |-> file]
      [] OTHER ->
           LET created == IF template THEN TemplateConfig ELSE MinimalConfig
           IN  [config |-> created, file |-> SaveConfig(created, file, disk).file]
--------------------------------------------------------------------------
\* The image variant builder (core/image_processor.py).  A file system is a
\* map from a file, <<directory, role, index>>, to the ImageSet whose pixels
\* it holds; a file that was never written is not in its domain.

File(dir, role, index) == <<dir, role, index>>

Write(fs, file, content) == Update(fs, [f \in {file} |-> content])

\* the steps of process_image_set that can fail, in program order
ImgSteps == <<"makedirs", "open", "pad", "save_front", "save_back",
              "combine", "save_vision", "save_final">>

ImgFaults == {"none"} \cup {ImgSteps[i] : i \in 1..Len(ImgSteps)}

StepNo(step) == CHOOSE i \in 1..Len(ImgSteps) : ImgSteps[i] = step

\* the step with this name is reached and succeeds when the fault is at a
\* later step (or nowhere)
Passed(step, fault) == fault = "none" \/ StepNo(step) < StepNo(fault)

\* the four variants, in the order they are saved
SaveOrder == <<"front", "back", "vision", "final">>

\* the step that saves a variant
SaveStep(role) ==
    CASE role = "front" -> "save_front" [] role = "back" -> "save_back"
      [] role = "vision" -> "save_vision" [] OTHER -> "save_final"

\* A process_image_set whose handler misses the failures of Image.open; C9
\* must tell it from the real one.
ImgEndingOpenEscapes(fault) ==
    IF fault = "none" THEN [result |-> "paths", raised |-> FALSE]
    ELSE [result |-> "empty", raised |-> fault = "open"]

\* how process_image_set ends when the fault step fails: the except clause turns
\* every failure into the empty result
ImgEnding(fault) ==
    IF fault = "none" THEN [result |-> "paths", raised |-> FALSE]
    ELSE [result |-> "empty", raised |-> FALSE]

\* process_image_set(front, back, output_dir, index): the four saves happen
\* in order front, back, vision, final; a failure stops the function there
ProcessImageSet(fs, set, dir, index, fault) ==
    LET fs1 == IF Passed(SaveStep("front"), fault)
               THEN Write(fs, File(dir, "front", index), set) ELSE fs
        fs2 == IF Passed(SaveStep("back"), fault)
               THEN Write(fs1, File(dir, "back", index), set) ELSE fs1
        fs3 == IF Passed(SaveStep("vision"), fault)
               THEN Write(fs2, File(dir, "vision", index), set) ELSE fs2
        fs4 == IF Passed(SaveStep("final"), fault)
               THEN Write(fs3, File(dir, "final", index), set) ELSE fs3
    IN  [fs |-> fs4, result |-> ImgEnding(fault).result,
         raised |-> ImgEnding(fault).raised]

--------------------------------------------------------------------------
\* The legacy uploader and row builder (core/aws_uploader.py,
\* core/csv_generator.py).

\* what s3.upload_file can do: succeed, fail with an error upload_to_s3
\* catches (BotoCoreError, NoCredentialsError), or fail with another one
\* max_height of resize_by_height, in pixels
MaxHeightPx == 1600

\* resize_by_height: an image taller than max_height is scaled down to it,
\* any other image is returned as it is
ResizeByHeight(img) ==
    IF img.h > MaxHeightPx
    THEN [w |-> (MaxHeightPx * img.w) \div img.h, h |-> MaxHeightPx]
    ELSE img

\* combine_side_by_side: the canvas is as high as the higher of the two
\* resized images and as wide as both; each image is pasted centred
\* vertically, the canvas showing above and below the lower one
CombineSideBySide(front, back) ==
    LET f      == ResizeByHeight(front)
        b      == ResizeByHeight(back)
        height == IF f.h >= b.h THEN f.h ELSE b.h
    IN  [w |-> f.w + b.w, h |-> height,
         front |-> [w |-> f.w, h |-> f.h, x |-> 0, y |-> (height - f.h) \div 2],
         back  |-> [w |-> b.w, h |-> b.h, x |-> f.w, y |-> (height - b.h) \div 2]]

UploadOutcomes == {"ok", "caught", "uncaught"}

\* upload_to_s3: the public URL, "" after a caught error; other errors leave
\* the function
UploadToS3(file, outcome) ==
    CASE outcome = "ok" -> [raised |-> FALSE, url |-> <<"url", file>>]
      [] outcome = "caught" -> [raised |-> FALSE, url |-> <<>>]
      [] OTHER -> [raised |-> TRUE, url |-> <<>>]

\* the metadata keys fill_row copies into the row, with the row's column
RowFields ==
    [c \in {"Title", "C:Region", "C:City"} |->
        IF c = "Title" THEN "Title" ELSE IF c = "C:Region" THEN "Region" ELSE "City"]

\* the columns fill_row assigns, in the order of its assignments (of the
\* fixed ones: the action, the photo URLs and the condition)
AssignedColumns ==
    <<"*Action", "Title", "Item photo URL", "Condition ID", "C:Region", "C:City">>

\* fill_row: every header starts empty, the fixed and the metadata columns
\* are assigned, and custom_html.format(**metadata) raises KeyError for a
\* placeholder that is no key of metadata
FillRow(headers, metadata, urls, htmlKeys) ==
    IF ~(htmlKeys \subseteq DOMAIN metadata) THEN [raised |-> TRUE, row |-> EmptyMap]
    ELSE [raised |-> FALSE,
          row |-> [c \in headers \cup {AssignedColumns[i] : i \in DOMAIN AssignedColumns} |->
                      IF c = "*Action" THEN <<"Add">>
                      ELSE IF c = "Item photo URL" THEN urls
                      ELSE IF c = "Condition ID" THEN <<"3000-Used">>
                      ELSE IF c \in DOMAIN RowFields
                           THEN <<Get(metadata, RowFields[c], "")>>
                      ELSE <<"">>]]

RECURSIVE AssignAll(_, _)
\* the keys of a dict after the assignments row[c] = ... for the columns
\* cols in turn: a new key goes to the end, an old one keeps its place
AssignAll(keys, cols) ==
    IF cols = <<>> THEN keys
    ELSE AssignAll(IF \E i \in DOMAIN keys : keys[i] = Head(cols) THEN keys
                   ELSE Append(keys, Head(cols)),
                   Tail(cols))

\* the keys of the row fill_row returns, in order: the template headers,
\* then every assigned column the template does not have
RowKeys(headers) == AssignAll(headers, AssignedColumns)
--------------------------------------------------------------------------
\* The GitHub upload, by GitHubUploadHandler and by the real GitHub server.
\* The repository is its working tree (changed or not) and the number of
\* commits that are not yet on the remote.

\* the result of an upload and the repository it leaves
UploadResult(success, message, files, dirty, ahead) ==
    [success |-> success, message |-> message, files |-> files,
     dirty |-> dirty, ahead |-> ahead]

\* GitHubUploadHandler.upload_to_github.  log_verbatim appends every line to
\* logs/github_upload.log in the repository, so unless .gitignore names
\* logs/ the working tree is changed whenever git looks at it
UploadToGithub(dirty, ahead, env) ==
    LET logged == ~env.ignored
        changed == dirty \/ logged
    IN  IF ~env.repo THEN UploadResult(FALSE, "Not a git repository", 0, changed, ahead)
        ELSE IF ~env.remote
             THEN UploadResult(FALSE, "No remote repository configured", 0, changed, ahead)
        ELSE IF ~env.add THEN UploadResult(FALSE, "Failed to stage changes", 0, changed, ahead)
        ELSE IF ~env.status \/ ~changed
             THEN UploadResult(TRUE, "No changes to upload", 0, changed, ahead)
        ELSE IF ~env.commit
             THEN UploadResult(FALSE, "Failed to commit changes", 1, changed, ahead)
        ELSE IF env.push
             THEN UploadResult(TRUE, "Successfully uploaded", 1, logged, 0)
             ELSE UploadResult(FALSE, "Push failed", 1, logged, ahead + 1)

\* handle_real_github_upload, by the github_upload_complete it broadcasts
HandleRealGithubUpload(dirty, ahead, env) ==
    IF ~env.add THEN UploadResult(FALSE, "Git add failed", 0, dirty, ahead)
    ELSE IF ~env.status \/ ~dirty
         THEN UploadResult(TRUE, "No changes to commit", 0, dirty, ahead)
    ELSE IF ~env.commit
         THEN UploadResult(FALSE, "Git commit failed", 1, dirty, ahead)
    ELSE IF env.push
         THEN UploadResult(TRUE, "Successfully uploaded", 1, FALSE, 0)
         ELSE UploadResult(FALSE, "Git push failed", 1, FALSE, ahead + 1)
--------------------------------------------------------------------------
VARIABLES
    clock,      \* CLI batch processor: the item whose thread holds progress_lock
    cread,      \* CLI batch processor: per item, the processed_count its thread read
    skind,      \* WebSocket servers: which server runs
    sclients,   \* WebSocket servers: self.clients
    sconn,      \* WebSocket servers: per client, the state of its connection
    sh,         \* WebSocket servers: per client, where its handler is
    srecv,      \* WebSocket servers: per client, the broadcasts it received
    sq,         \* WebSocket servers: message_queue of the resilient server
    snext,      \* WebSocket servers: broadcasts begun so far
    sb,         \* WebSocket servers: the broadcast in progress
    slast,      \* WebSocket servers: how the last broadcast ended
    gcsv,       \* integrated GUI: what the last Export to CSV logged and wrote
    wbatch,     \* WebSocket batch: the image files found and the workers asked for
    wtask,      \* WebSocket batch: per file, where its task is and how it ended
    wprocessed, \* WebSocket batch: processed_count
    wfailed,    \* WebSocket batch: failed_count
    wdone,      \* WebSocket batch: the batch_processing_complete broadcast
    hdirty,     \* GitHub upload: the working tree has uncommitted changes
    hahead,     \* GitHub upload: local commits that are not on the remote
    hcalls,     \* GitHub upload: uploads run so far
    hby,        \* GitHub upload: which function ran the last upload
    hres,       \* GitHub upload: the result of the last upload
    araw,       \* legacy GUI, one subfolder: the raw files the user put into it
    apc,        \* legacy GUI, one subfolder: where create_listings is
    apairs,     \* legacy GUI, one subfolder: what get_image_pairs returned last
    ai,         \* legacy GUI, one subfolder: the index of the pair being processed
    arows,      \* legacy GUI, one subfolder: all_rows
    aruns,      \* legacy GUI, one subfolder: clicks on the button so far
    acsv        \* legacy GUI, one subfolder: its CSV file exists

wbvars == <<wbatch, wtask, wprocessed, wfailed, wdone>>

hvars == <<hdirty, hahead, hcalls, hby, hres>>

\* the state of the upload handler and of the WebSocket servers
svars == <<skind, sclients, sconn, sh, srecv, sq, snext, sb, slast>>

\* the state of create_listings run on one subfolder again and again
avars == <<araw, apc, apairs, ai, arows, aruns, acsv>>

qvars == <<hvars, svars, avars>>
--------------------------------------------------------------------------
VARIABLES
    fs,         \* the output files: file -> the ImageSet it was built from
    xfn,        \* extractor: the function called
    xkey,       \* extractor: openai_api_key is configured
    xmulti,     \* extractor: use_multi_llm of the current frame's config
    xdata,      \* extractor: the data/*_values.txt files exist
    xpc,        \* extractor: idle, try, except, done
    xdepth,     \* extractor: nested get_enhanced_metadata frames
    xreq,       \* extractor: chat-completion requests sent so far
    xtrail,     \* extractor: per attempt, who made it and what it met
    xraw,       \* extractor: the last response received
    xres,       \* extractor: how the call ended
    lenv,       \* legacy GUI: settings and environment, fixed by Init
    lpc,        \* legacy GUI: where create_listings is
    lf,         \* legacy GUI: the subfolder being processed
    lp,         \* legacy GUI: the index of the pair being processed
    lmeta,      \* legacy GUI: the metadata of the current pair
    lrows,      \* legacy GUI: all_rows of the current subfolder
    lsum,       \* legacy GUI: per subfolder, what became of it
    ltrace,     \* legacy GUI: per pair of the current subfolder, its steps
    lcsv,       \* legacy GUI: the rows of the CSV file written last
    bcalls,     \* image builder: calls of process_image_set so far
    blast,      \* image builder: the last call and how it ended
    gconf,      \* integrated GUI: ConfigManager.config, shared with the workers
    gform,      \* integrated GUI: the values in the settings form
    gfile,      \* integrated GUI: the contents of config/settings.json
    gfront,     \* integrated GUI: front_path, or none
    gback,      \* integrated GUI: back_path, or none
    gbtn,       \* integrated GUI: which buttons are enabled
    gtext,      \* integrated GUI: the text of the two upload buttons
    gw,         \* integrated GUI: the PostcardProcessor threads
    gruns,      \* integrated GUI: PostcardProcessor threads started
    gup,        \* integrated GUI: GitHubUploadWorker threads running
    gups,       \* integrated GUI: GitHubUploadWorker threads started
    gqueue,     \* integrated GUI: signals emitted and not yet handled
    gresults,   \* integrated GUI: results_data
    cenv,       \* CLI: the script, its arguments and what it finds on disk
    cpc,        \* CLI: where the main thread is
    citems,     \* CLI: per image file, how far its processing is
    cprocessed, \* CLI batch processor: processed_count
    csucc,      \* CLI: successful
    cfail,      \* CLI: failed
    cintr,      \* CLI: the user has interrupted the run
    cexit,      \* CLI: the exit code, -1 while the process runs
    wkey,       \* WebSocket server: .env.local holds an OpenAI key
    wpc,        \* WebSocket server: where run_solar_panel_processing is
    wfile,      \* WebSocket server: the file being processed
    wtrace,     \* WebSocket server: the pipeline steps finished for it
    wmeta,      \* WebSocket server: enhanced_metadata
    wproc,      \* WebSocket server: processed_images
    wreq,       \* WebSocket server: chat-completion requests for the file
    wjobs,      \* WebSocket server: files handled so far
    wmsgs,      \* WebSocket server: the completion messages broadcast
    mpt,        \* category mapper: the product type of the metadata
    msub,       \* category mapper: the subcategory text, empty when absent
    mcat,       \* category mapper: the category_id of the LLM, or absent
    mpc,        \* category mapper: idle, or which function has been applied
    mout,       \* category mapper: what that function returned
    kresults,   \* consensus merger: the AnalysisResults of the backends
    kpc,        \* consensus merger: idle or done
    kout,       \* consensus merger: the ConsensusResult, or that it raised
    rheaders,   \* CSV row builder: the columns of the template, in order
    rmeta,      \* CSV row builder: the metadata of the item
    rhtml,      \* CSV row builder: the placeholders of custom_html
    rpc,        \* CSV row builder: idle, or which function has been applied
    rout,       \* CSV row builder: the row, or the columns of the CSV file
    ifront,     \* vision composite: the size of the front image
    iback,      \* vision composite: the size of the back image
    ipc,        \* vision composite: idle, or which function has been applied
    iout,       \* vision composite: the image that function returned
    ffile,      \* ConfigManager: config/settings.json
    ftemplate,  \* ConfigManager: config/settings.template.json exists
    fcfg,       \* ConfigManager: per instance, whether built and its config
    fset,       \* ConfigManager: per instance, the values stored with set
    fsets,      \* ConfigManager: calls of set so far
    fsnap,      \* ConfigManager: the last save_config, what it had to save
    ffresh      \* ConfigManager: the instances built since that save

xvars == <<xfn, xkey, xmulti, xdata, xpc, xdepth, xreq, xtrail, xraw, xres>>

lvars == <<lenv, lpc, lf, lp, lmeta, lrows, lsum, ltrace, lcsv>>

bvars == <<bcalls, blast>>

gvars == <<gconf, gform, gfile, gfront, gback, gbtn, gtext, gw, gruns, gup,
           gups, gqueue, gresults, gcsv>>

cvars == <<cenv, cpc, citems, cprocessed, csucc, cfail, cintr, cexit, clock, cread>>

wvars == <<wkey, wpc, wfile, wtrace, wmeta, wproc, wreq, wjobs, wmsgs, wbvars>>

mvars == <<mpt, msub, mcat, mpc, mout>>

kvars == <<kresults, kpc, kout>>

rvars == <<rheaders, rmeta, rhtml, rpc, rout>>

ivars == <<ifront, iback, ipc, iout>>

fvars == <<ffile, ftemplate, fcfg, fset, fsets, fsnap, ffresh>>

\* the state of the components that are called on their own
pvars == <<mvars, kvars, rvars, ivars, fvars>>

vars == <<fs, xvars, lvars, bvars, gvars, cvars, wvars, pvars, qvars>>

\* what the actions of one component leave alone in the others
XRest == <<fs, lvars, bvars, gvars, cvars, wvars, pvars, qvars>>

LRest == <<xvars, bvars, gvars, cvars, wvars, pvars, qvars>>

BRest == <<xvars, lvars, gvars, cvars, wvars, pvars, qvars>>

GRest == <<xvars, lvars, bvars, cvars, wvars, pvars, qvars, gcsv>>

\* what Export to CSV leaves alone
GXRest == <<fs, xvars, lvars, bvars, cvars, wvars, pvars, qvars,
            gconf, gform, gfile, gfront, gback, gbtn, gtext, gw, gruns, gup,
            gups, gqueue, gresults>>

CRest == <<fs, xvars, lvars, bvars, gvars, wvars, pvars, qvars, clock, cread>>

\* what the threads of the batch processor leave alone
CPRest == <<fs, xvars, lvars, bvars, gvars, wvars, pvars, qvars,
            cenv, cpc, csucc, cfail, cintr, cexit>>

WRest == <<xvars, lvars, bvars, gvars, cvars, pvars, qvars, wbvars>>

\* what the batch of the WebSocket server leaves alone
WBRest == <<xvars, lvars, bvars, gvars, cvars, pvars, qvars,
            wkey, wpc, wfile, wtrace, wmeta, wproc, wreq, wjobs>>

\* what the category mapper leaves alone
MRest == <<fs, xvars, lvars, bvars, gvars, cvars, wvars, kvars, rvars, ivars, fvars, qvars>>

\* what the consensus merger leaves alone
KRest == <<fs, xvars, lvars, bvars, gvars, cvars, wvars, mvars, rvars, ivars, fvars, qvars>>

\* what the CSV row builder leaves alone
RRest == <<fs, xvars, lvars, bvars, gvars, cvars, wvars, mvars, kvars, ivars, fvars, qvars>>

\* what the composite functions leave alone
IRest == <<fs, xvars, lvars, bvars, gvars, cvars, wvars, mvars, kvars, rvars, fvars, qvars>>

\* what the ConfigManager leaves alone
FRest == <<fs, xvars, lvars, bvars, gvars, cvars, wvars, mvars, kvars, rvars, ivars, qvars>>

\* the rest of the model, which the upload handler and the servers leave alone
QRest == <<fs, xvars, lvars, bvars, gvars, cvars, wvars, pvars>>

\* the same without the files
FRest0 == <<xvars, lvars, bvars, gvars, cvars, wvars, pvars>>

HRest == <<QRest, svars, avars>>

SRest == <<QRest, hvars, avars>>

ARest == <<FRest0, hvars, svars>>

\* the LLM outcomes the pipelines are run against
SampleOutcomes ==
    {ApiFail, Answer(<<"T">>), Answer(<<"{", "P", "}">>),
     Answer(<<Fence, "json", "{", "P", "}", Fence>>), Answer(<<"{", "C", "}">>)}

--------------------------------------------------------------------------
\* The metadata extractors, called on their own.

NoResult == [kind |-> "none", meta |-> EmptyMap, req |-> 0]

XIdle ==
    /\ xfn = "none" /\ xkey = FALSE /\ xmulti = FALSE /\ xdata = FALSE
    /\ xpc = "idle" /\ xdepth = 0 /\ xreq = 0 /\ xtrail = <<>>
    /\ xraw = <<>> /\ xres = NoResult

\* which function handles the attempt of the current frame
XBy == IF xfn = "enhanced" THEN (IF xmulti THEN "multi" ELSE "single") ELSE xfn

XAttempt(o) ==
    CASE xfn = "vision" -> VisionGetPostcardMetadata(xdata, o)
      [] xfn = "single" -> GetSingleLLMMetadata(xkey, o)
      [] OTHER -> EnhancedTry(xmulti, xkey, o)

\* no JSON could be parsed from the response of this attempt
ParseFailed(by, o) ==
    /\ o.kind = "response"
    /\ IF by = "multi"
       THEN ~JsonMatch(o.raw).found \/ ~JsonLoads(JsonMatch(o.raw).str).ok
       ELSE ~JsonLoads(StripFence(o.raw)).ok

\* a caller invokes one of the three extractors
XCall ==
    /\ xpc = "idle"
    /\ \E fn \in {"vision", "single", "enhanced"}, key \in BOOLEAN,
          multi \in BOOLEAN, data \in BOOLEAN :
          /\ (fn # "enhanced" => ~multi)
          /\ (fn # "vision" => data)
          /\ (fn = "vision" => key)
          /\ xfn' = fn /\ xkey' = key /\ xmulti' = multi /\ xdata' = data
    /\ xpc' = "try" /\ xdepth' = 1
    /\ UNCHANGED <<xreq, xtrail, xraw, xres, XRest>>

\* the body of the function (for get_enhanced_metadata: its try block)
XTry ==
    /\ xpc = "try"
    /\ \E o \in Outcomes :
          LET r    == XAttempt(o)
              met  == IF r.req = 0 /\ r.kind = "raise" THEN "nothing" ELSE o.kind
          IN  /\ xreq' = xreq + r.req
              /\ xtrail' = Append(xtrail, [by |-> XBy, met |-> met, ended |-> r.kind,
                                           pf |-> met = "response" /\ ParseFailed(XBy, o)])
              /\ xraw' = IF met = "response" THEN o.raw ELSE <<>>
              /\ IF r.kind = "raise" /\ xfn = "enhanced"
                 THEN xpc' = "except" /\ xres' = xres
                 ELSE xpc' = "done" /\ xres' = [r EXCEPT !.req = xreq + r.req]
    /\ UNCHANGED <<xfn, xkey, xmulti, xdata, xdepth, XRest>>

\* the except branch of get_enhanced_metadata: get_postcard_metadata enters
\* get_enhanced_metadata again with use_multi_llm off, unless the interpreter
\* refuses the call, and then the error reaches the first caller
XExcept ==
    /\ xpc = "except"
    /\ IF xdepth < RecursionLimit
       THEN /\ xdepth' = xdepth + 1 /\ xmulti' = FALSE /\ xpc' = "try"
            /\ UNCHANGED xres
       ELSE /\ xpc' = "done" /\ xres' = Raise(xreq)
            /\ UNCHANGED <<xdepth, xmulti>>
    /\ UNCHANGED <<xfn, xkey, xdata, xreq, xtrail, xraw, XRest>>

--------------------------------------------------------------------------
\* process_image_set called on its own, several times over.

\* Calls of process_image_set in one run of the builder.
MaxCalls == 2

ImageSets == {"s1", "s2"}

Dirs == {"output"}

Indexes == {0, 1}

NoCall == [set |-> "none", dir |-> "none", index |-> 0, fault |-> "none",
           result |-> "none", raised |-> FALSE, before |-> EmptyMap]

BIdle == bcalls = 0 /\ blast = NoCall

\* one call: the caller chooses the pair, the directory and the index
BProcess ==
    /\ bcalls < MaxCalls
    /\ \E set \in ImageSets, dir \in Dirs, index \in Indexes, fault \in ImgFaults :
          LET r == ProcessImageSet(fs, set, dir, index, fault)
          IN  /\ fs' = r.fs
              /\ blast' = [set |-> set, dir |-> dir, index |-> index, fault |-> fault,
                            result |-> r.result, raised |-> r.raised, before |-> fs]
    /\ bcalls' = bcalls + 1
    /\ UNCHANGED BRest

--------------------------------------------------------------------------
\* The legacy GUI (app.py): ProcessTab.create_listings.

Folders == {1, 2}

Pending == [status |-> "pending", attempted |-> 0, rows |-> 0, why |-> "none"]

\* the failures of process_image_set the legacy GUI is run against
LegacyFaults == {"none", "open"}

\* the behaviours of S3 it is run against: per upload of a pair
UploadSamples ==
    {[r \in {"front", "back", "final"} |-> "ok"],
     [r \in {"front", "back", "final"} |-> "caught"],
     [r \in {"front", "back", "final"} |-> IF r = "front" THEN "uncaught" ELSE "ok"],
     [r \in {"front", "back", "final"} |-> IF r = "final" THEN "uncaught" ELSE "ok"]}

Roles == <<"front", "back", "final">>

\* the columns of the CSV template
Headers == {"*Action", "Title", "C:Region", "Item photo URL", "Condition ID", "Subtitle"}

LIdle ==
    /\ lpc = "idle" /\ lf = 0 /\ lp = 0 /\ lmeta = EmptyMap /\ lrows = <<>>
    /\ lsum = [f \in Folders |-> Pending]
    /\ ltrace = [p \in 0..(MaxPairs - 1) |-> <<>>]
    /\ lcsv = <<>>

LEnvs ==
    [input : BOOLEAN, data : BOOLEAN, html : {{}, {"Title"}},
     pairs : {n \in [Folders -> 0..MaxPairs] : n[2] <= 1}, processed : SUBSET {1}]

\* the three upload_to_s3 calls of one pair, in order; the first error that
\* upload_to_s3 does not catch ends them
Uploads(f, p, outs) ==
    LET up(i) == UploadToS3(File(f, Roles[i], p), outs[Roles[i]])
    IN  [raised |-> \E i \in 1..3 : up(i).raised,
         urls |-> [i \in 1..3 |-> up(i).url]]

\* the parameters of fill_row
FillRowParameters == 7

\* [fill_row(headers, *row_data) for row_data in all_rows]
FillRows(rows, htmlKeys) ==
    LET filled == [i \in 1..Len(rows) |->
                      FillRow(Headers, rows[i].metadata, rows[i].urls, htmlKeys)]
    IN  [raised |-> \E i \in 1..Len(rows) : filled[i].raised,
         rows |-> [i \in 1..Len(rows) |-> filled[i].row],
         built |-> {i \in 1..Len(rows) : \A j \in 1..i : ~filled[j].raised}]

\* generate_csv(output_path, template_path, all_rows) for rows that are
\* tuples of rowLen values: fill_row(headers, *row_data) is a call with
\* rowLen + 1 arguments, a TypeError unless these are its seven parameters
GenerateCsv(rowLen, rows, htmlKeys) ==
    IF rows # <<>> /\ rowLen + 1 # FillRowParameters
    THEN [raised |-> TRUE, error |-> "TypeError", rows |-> <<>>]
    ELSE LET r == FillRows(rows, htmlKeys)
         IN  [raised |-> r.raised,
              error |-> IF r.raised THEN "KeyError" ELSE "",
              rows |-> IF r.raised THEN <<>> ELSE r.rows]

Step(trace, p, name) == [trace EXCEPT ![p] = Append(@, name)]

\* the loop goes on to the next pair, or leaves for generate_csv
LAdvance ==
    IF lp + 1 < lenv.pairs[lf]
    THEN lp' = lp + 1 /\ lpc' = "image"
    ELSE lp' = lp /\ lpc' = "csv"

\* the except clause of the subfolder: log the error, go to the next one
LFolderError(sum, why) ==
    /\ lsum' = [sum EXCEPT ![lf].status = "error", ![lf].why = why]
    /\ lf' = lf + 1 /\ lpc' = "folder"

\* the button is clicked: settings are loaded and the directory is checked
LStart ==
    /\ lpc = "idle"
    /\ IF lenv.input THEN lpc' = "folder" /\ lf' = 1
       ELSE lpc' = "done" /\ lf' = lf
    /\ UNCHANGED <<fs, LRest, lenv, lp, lmeta, lrows, lsum, ltrace, lcsv>>

\* the head of the subfolder loop
LFolder ==
    /\ lpc = "folder"
    /\ IF lf \notin Folders
       THEN lpc' = "done" /\ UNCHANGED <<lf, lp, lrows, lsum, ltrace>>
       ELSE IF lf \in lenv.processed
       THEN /\ lsum' = [lsum EXCEPT ![lf].status = "skipped"]
            /\ lf' = lf + 1
            /\ UNCHANGED <<lpc, lp, lrows, ltrace>>
       ELSE /\ lrows' = <<>> /\ lp' = 0
            /\ ltrace' = [p \in 0..(MaxPairs - 1) |-> <<>>]
            /\ lpc' = IF lenv.pairs[lf] = 0 THEN "csv" ELSE "image"
            /\ UNCHANGED <<lf, lsum>>
    /\ UNCHANGED <<fs, LRest, lenv, lmeta, lcsv>>

\* process_image_set for the pair; an empty result skips the pair
LImage ==
    /\ lpc = "image"
    /\ \E fault \in LegacyFaults :
          LET r == ProcessImageSet(fs, <<lf, lp>>, lf, lp, fault)
              sum == [lsum EXCEPT ![lf].attempted = @ + 1]
          IN  /\ fs' = r.fs
              /\ IF r.raised THEN LFolderError(sum, "image") /\ UNCHANGED <<lp, ltrace>>
                 ELSE IF r.result = "empty"
                 THEN LAdvance /\ lsum' = sum /\ UNCHANGED <<lf, ltrace>>
                 ELSE /\ lpc' = "extract" /\ ltrace' = Step(ltrace, lp, "image")
                      /\ lsum' = sum /\ UNCHANGED <<lf, lp>>
    /\ UNCHANGED <<LRest, lenv, lmeta, lrows, lcsv>>

\* get_postcard_metadata (core/vision_handler.py) on the vision image
LExtract ==
    /\ lpc = "extract"
    /\ \E o \in SampleOutcomes :
          LET r == VisionGetPostcardMetadata(lenv.data, o)
          IN  IF r.kind = "raise"
              THEN LFolderError(lsum, "extract") /\ UNCHANGED <<lp, lmeta, ltrace>>
              ELSE /\ lmeta' = r.meta /\ lpc' = "upload"
                   /\ ltrace' = Step(ltrace, lp, "extract")
                   /\ UNCHANGED <<lf, lp, lsum>>
    /\ UNCHANGED <<fs, LRest, lenv, lrows, lcsv>>

\* the three uploads and all_rows.append
LUpload ==
    /\ lpc = "upload"
    /\ \E outs \in UploadSamples :
          LET u == Uploads(lf, lp, outs)
          IN  IF u.raised
              THEN LFolderError(lsum, "upload") /\ UNCHANGED <<lp, lmeta, lrows, ltrace>>
              ELSE /\ lrows' = Append(lrows, [pair |-> lp, metadata |-> lmeta, urls |-> u.urls])
                   /\ ltrace' = Step(ltrace, lp, "upload")
                   /\ lmeta' = EmptyMap
                   /\ LAdvance
                   /\ UNCHANGED <<lf, lsum>>
    /\ UNCHANGED <<fs, LRest, lenv, lcsv>>

\* generate_csv for the subfolder, then the Completed message
LCsv ==
    /\ lpc = "csv"
    /\    LET r == FillRows(lrows, lenv.html)
              built == [p \in 0..(MaxPairs - 1) |->
                          IF \E i \in r.built : lrows[i].pair = p
                          THEN Append(ltrace[p], "row") ELSE ltrace[p]]
          IN  /\ ltrace' = built
              /\ IF r.raised
                 THEN LFolderError(lsum, "fill_row") /\ UNCHANGED lcsv
                 ELSE /\ lsum' = [lsum EXCEPT ![lf].status = "completed",
                                              ![lf].rows = Len(r.rows)]
                      /\ lcsv' = r.rows
                      /\ lf' = lf + 1 /\ lpc' = "folder"
    /\ UNCHANGED <<fs, LRest, lenv, lp, lmeta, lrows>>

--------------------------------------------------------------------------
\* The integrated GUI (app_integrated.py): the main window, its
\* PostcardProcessor threads and its GitHubUploadWorker threads.

\* PostcardProcessor threads started in one session.
MaxRuns == 2

\* GitHubUploadWorker threads started in one session.
MaxUploads == 1

Fronts == {"f1", "f2"}

Backs == {"b1"}

\* the configurations the GUI is run against (use_multi_llm is on, its default)
Configs == [key : BOOLEAN, multi : {TRUE}, catalog : BOOLEAN]

\* the failures of process_image_set the GUI is run against
GuiFaults == {"none", "save_vision"}

\* the LLM outcomes the GUI is run against
GuiOutcomes == {ApiFail, Answer(<<"{", "P", "}">>)}

\* GitHubCatalog.create_product: a product id, or an exception
CatalogOutcomes == {"ok", "raise"}

NoWorker == [pc |-> "none", set |-> <<>>, fault |-> "none", saved |-> 0, meta |-> EmptyMap]

NoUrls == [r \in {} |-> <<>>]

NoExport == [log |-> "", written |-> FALSE, rows |-> 0]

GIdle ==
    /\ gfront = "none" /\ gback = "none"
    /\ gbtn = [process |-> FALSE, settings |-> TRUE, results |-> FALSE, export |-> FALSE]
    /\ gtext = [settings |-> "upload", results |-> "upload"]
    /\ gw = [w \in 1..MaxRuns |-> NoWorker]
    /\ gruns = 0 /\ gup = 0 /\ gups = 0 /\ gqueue = <<>> /\ gresults = <<>>
    /\ gcsv = NoExport

\* the confidence values that metadata.get("confidence", 0.0) formats as a
\* percentage
Formats(meta) == Get(meta, "confidence", "0.0") \in Numeric \cup {"0.0"}

\* the signal a PostcardProcessor emits when it ends
Signal(kind, w, urls, upload) ==
    [kind |-> kind, set |-> gw[w].set, meta |-> IF kind = "complete" THEN gw[w].meta ELSE EmptyMap,
     urls |-> urls, upload |-> upload]

\* A Step 3 without the inner try: a failed upload fails the item.  C3 must
\* tell it from the real one.
UploadEndingFailing(out) ==
    [kind |-> IF out = "raise" THEN "error" ELSE "complete",
     urls |-> IF out = "ok" THEN [r \in {"front", "back", "final"} |-> <<"url", r>>]
              ELSE NoUrls]

\* Step 3 of run: what becomes of the item once create_product has ended
UploadEnding(out) ==
    [kind |-> "complete",
     urls |-> IF out = "ok" THEN [r \in {"front", "back", "final"} |-> <<"url", r>>]
              ELSE NoUrls]

\* check_ready_to_process
CheckReady(front, back) ==
    [gbtn EXCEPT !.process = front # "none" /\ back # "none" /\ gconf.key]

\* select_front_image: a file is chosen in the dialog
GSelectFront ==
    /\ \E f \in Fronts : gfront' = f /\ gbtn' = CheckReady(f, gback)
    /\ UNCHANGED <<fs, GRest, gconf, gform, gfile, gback, gtext, gw, gruns, gup,
                   gups, gqueue, gresults>>

\* select_back_image
GSelectBack ==
    /\ \E b \in Backs : gback' = b /\ gbtn' = CheckReady(gfront, b)
    /\ UNCHANGED <<fs, GRest, gconf, gform, gfile, gfront, gtext, gw, gruns, gup,
                   gups, gqueue, gresults>>

\* save_config_from_gui: the form goes into the config and into the file
GSaveConfig ==
    /\ gconf # gform
    /\ gconf' = gform /\ gfile' = gform
    /\ UNCHANGED <<fs, GRest, gform, gfront, gback, gbtn, gtext, gw, gruns, gup,
                   gups, gqueue, gresults>>

\* start_processing: a click on the enabled Process button
GStartProcessing ==
    /\ gbtn.process /\ gruns < MaxRuns
    /\ IF gfront = "none" \/ gback = "none" \/ ~gconf.key
       THEN UNCHANGED <<gbtn, gw, gruns>>
       ELSE \E fault \in GuiFaults :
            /\ gbtn' = [gbtn EXCEPT !.process = FALSE]
            /\ gruns' = gruns + 1
            /\ gw' = [gw EXCEPT ![gruns + 1] =
                        [pc |-> "image", set |-> <<gfront, gback>>, fault |-> fault,
                         saved |-> 0, meta |-> EmptyMap]]
    /\ UNCHANGED <<fs, GRest, gconf, gform, gfile, gfront, gback, gtext, gup, gups,
                   gqueue, gresults>>

Ended(w) == [gw EXCEPT ![w] = [NoWorker EXCEPT !.pc = "ended"]]

\* the except clause of run: error_occurred is emitted and the thread ends
PFail(w, upload) ==
    /\ gqueue' = Append(gqueue, Signal("error", w, NoUrls, upload))
    /\ gw' = Ended(w)

\* process_image_set inside a PostcardProcessor, one save at a time: always
\* into the directory output, always with index 1
PSave(w) ==
    /\ gw[w].pc = "image"
    /\ LET role == SaveOrder[gw[w].saved + 1]
       IN  IF Passed(SaveStep(role), gw[w].fault)
           THEN /\ fs' = Write(fs, File("output", role, 1), gw[w].set)
                /\ gw' = [gw EXCEPT ![w].saved = @ + 1,
                                    ![w].pc = IF gw[w].saved + 1 = Len(SaveOrder)
                                              THEN "extract" ELSE "image"]
                /\ UNCHANGED gqueue
           ELSE /\ ImgEnding(gw[w].fault).result = "empty" \/ ImgEnding(gw[w].fault).raised
                /\ PFail(w, "notreached")
                /\ UNCHANGED fs
    /\ UNCHANGED <<GRest, gconf, gform, gfile, gfront, gback, gbtn, gtext, gruns, gup,
                   gups, gresults>>

\* Step 2 of run: get_enhanced_metadata with the shared config, the check
\* for an empty map and the progress message that formats the confidence
PExtract(w) ==
    /\ gw[w].pc = "extract"
    /\ \E o1 \in GuiOutcomes, o2 \in GuiOutcomes :
          LET r == GetEnhancedMetadata(gconf.multi, gconf.key, o1, o2)
          IN  IF r.kind = "raise" \/ r.meta = EmptyMap \/ ~Formats(r.meta)
              THEN PFail(w, "notreached")
              ELSE /\ gw' = [gw EXCEPT ![w].pc = "upload", ![w].meta = r.meta]
                   /\ UNCHANGED gqueue
    /\ UNCHANGED <<fs, GRest, gconf, gform, gfile, gfront, gback, gbtn, gtext, gruns,
                   gup, gups, gresults>>

\* Steps 3 and 4 of run: the catalog upload inside its own try, then
\* processing_complete
PUpload(w) ==
    /\ gw[w].pc = "upload"
    /\ \E out \in IF gconf.catalog THEN CatalogOutcomes ELSE {"disabled"} :
          LET e == UploadEnding(out)
          IN  /\ gqueue' = Append(gqueue, Signal(e.kind, w, e.urls, out))
              /\ gw' = Ended(w)
    /\ UNCHANGED <<fs, GRest, gconf, gform, gfile, gfront, gback, gbtn, gtext, gruns,
                   gup, gups, gresults>>

\* upload_to_github: a click on one of the two enabled upload buttons
GUploadClick(b) ==
    /\ gbtn[b] /\ gups < MaxUploads
    /\ gconf' = gform /\ gfile' = gform
    /\ gbtn' = [gbtn EXCEPT ![b] = FALSE]
    /\ gtext' = [gtext EXCEPT ![b] = "uploading"]
    /\ gup' = gup + 1 /\ gups' = gups + 1
    /\ UNCHANGED <<fs, GRest, gform, gfront, gback, gw, gruns, gqueue, gresults>>

\* GitHubUploadWorker.run ends and emits upload_complete (with success or
\* without: upload_finished treats the buttons alike)
UFinish ==
    /\ gup > 0
    /\ gup' = gup - 1
    /\ gqueue' = Append(gqueue, [kind |-> "uploaded", set |-> <<>>, meta |-> EmptyMap,
                                 urls |-> NoUrls, upload |-> "none"])
    /\ UNCHANGED <<fs, GRest, gconf, gform, gfile, gfront, gback, gbtn, gtext, gw,
                   gruns, gups, gresults>>

\* the main thread handles the oldest signal: processing_finished,
\* processing_error or upload_finished
GHandle ==
    /\ gqueue # <<>>
    /\ gqueue' = Tail(gqueue)
    /\ LET s == Head(gqueue)
       IN  CASE s.kind = "complete" ->
                  /\ gresults' = Append(gresults, [set |-> s.set, meta |-> s.meta,
                                                  urls |-> s.urls, upload |-> s.upload])
                  /\ gbtn' = [gbtn EXCEPT !.process = TRUE, !.export = TRUE,
                                          !.results = TRUE]
             [] s.kind = "error" ->
                  /\ gbtn' = [gbtn EXCEPT !.process = TRUE]
                  /\ UNCHANGED gresults
             [] OTHER ->
                  /\ gbtn' = [b \in DOMAIN gbtn |->
                                IF b \in DOMAIN gtext /\ gtext[b] = "upload"
                                THEN TRUE ELSE gbtn[b]]
                  /\ UNCHANGED gresults
    /\ UNCHANGED <<fs, GRest, gconf, gform, gfile, gfront, gback, gtext, gw, gruns,
                   gup, gups>>


\* Export to CSV is clicked: export_to_csv.  The user names a file in the
\* dialog or cancels it, and the template is on disk or missing; each row
\* handed to generate_csv is the tuple (metadata, s3_urls, settings)
GExport(named, template) ==
    /\ gbtn.export
    /\ gcsv' =
          IF gresults = <<>>
          THEN [log |-> "No results to export", written |-> FALSE, rows |-> 0]
          ELSE IF ~named THEN gcsv
          ELSE IF ~template
               THEN [log |-> "Template file not found", written |-> FALSE, rows |-> 0]
          ELSE LET rows == [i \in DOMAIN gresults |->
                               [metadata |-> gresults[i].meta, urls |-> gresults[i].urls]]
                   r == GenerateCsv(3, rows, {})
               IN  IF r.raised
                   THEN [log |-> "CSV export failed", written |-> FALSE, rows |-> 0]
                   ELSE [log |-> "CSV exported successfully", written |-> TRUE,
                         rows |-> Len(r.rows)]
    /\ UNCHANGED GXRest
--------------------------------------------------------------------------
\* The command-line scripts: cli/main.py (script "main", with --input or
\* --batch) and cli/batch_processor.py (script "pool").

\* Image files in the input directory of a batch.
MaxFiles == 2

\* Width of the thread pool (--workers).
MaxWorkers == 2

CEnvs ==
    {e \in [script : {"main", "pool"}, mode : {"single", "batch"}, config : BOOLEAN,
            dir : BOOLEAN, n : 0..MaxFiles, workers : 1..MaxWorkers] :
        /\ e.script = "pool" => e.mode = "batch"
        /\ e.script = "main" => e.workers = 1
        /\ e.mode = "single" => e.n = 1 /\ e.dir
        /\ ~e.dir => e.n = 0}

CIdle ==
    /\ cpc = "start" /\ citems = [i \in 1..MaxFiles |-> "none"]
    /\ cprocessed = 0 /\ csucc = 0 /\ cfail = 0 /\ cintr = FALSE /\ cexit = -1
    /\ clock = 0 /\ cread = [i \in 1..MaxFiles |-> 0]

Files == 1..cenv.n

\* sys.exit
Exit(code) == cexit' = code /\ cpc' = "exited"

\* process_solar_panel and process_single_item: every exception is caught
\* and becomes a failure result.  With the modules of this repository the
\* imports at the head of the try block raise; the other ending is the one
\* of a tree that holds the imported classes.
ItemEndings == {"ok", "failed"}

\* load_config and the check of its result
CLoadConfig ==
    /\ cpc = "start"
    /\ IF cenv.config THEN cpc' = "run" /\ UNCHANGED cexit ELSE Exit(1)
    /\ UNCHANGED <<CRest, cenv, citems, cprocessed, csucc, cfail, cintr>>

\* the head of batch_process and of process_batch; with --input the one
\* item is the input file
CBegin ==
    /\ cpc = "run"
    /\ IF cenv.mode = "batch" /\ ~cenv.dir
       THEN Exit(1) /\ UNCHANGED citems
       ELSE IF cenv.script = "pool" /\ cenv.n = 0
       THEN Exit(0) /\ UNCHANGED citems
       ELSE /\ citems' = [i \in 1..MaxFiles |-> IF i \in Files THEN "queued" ELSE "none"]
            /\ cpc' = IF cenv.script = "pool" THEN "collect" ELSE "loop"
            /\ UNCHANGED cexit
    /\ UNCHANGED <<CRest, cenv, cprocessed, csucc, cfail, cintr>>

\* cli/main.py: one turn of the loop of batch_process, or the single item
CItem ==
    /\ cpc = "loop"
    /\ \E i \in Files :
          /\ citems[i] = "queued" /\ \A j \in Files : j < i => citems[j] # "queued"
          /\ \E end \in ItemEndings :
                /\ citems' = [citems EXCEPT ![i] = end]
                /\ csucc' = IF end = "ok" THEN csucc + 1 ELSE csucc
                /\ cfail' = IF end = "ok" THEN cfail ELSE cfail + 1
    /\ UNCHANGED <<CRest, cenv, cpc, cprocessed, cintr, cexit>>

\* cli/main.py after the loop: the success rate is computed, then main
\* chooses the exit code; a division by zero reaches main's handler
CFinishMain ==
    /\ cpc = "loop" /\ \A i \in Files : citems[i] # "queued"
    /\ IF cenv.mode = "single" THEN Exit(IF cfail = 0 THEN 0 ELSE 1)
       ELSE IF cenv.n = 0 THEN Exit(1)
       ELSE Exit(IF cfail = 0 THEN 0 ELSE 2)
    /\ UNCHANGED <<CRest, cenv, citems, cprocessed, csucc, cfail, cintr>>

\* batch_processor.py: a pool thread takes a submitted item
PoolTake(i) ==
    /\ cpc = "collect" /\ citems[i] = "queued"
    /\ Cardinality({j \in Files : citems[j] = "running"}) < cenv.workers
    /\ citems' = [citems EXCEPT ![i] = "running"]
    /\ UNCHANGED <<CRest, cenv, cpc, cprocessed, csucc, cfail, cintr, cexit>>

\* batch_processor.py: the work of process_single_item ends, with the
\* result or in the except clause; both paths go on to progress_lock
PoolDone(i) ==
    /\ cpc = "collect" /\ citems[i] = "running"
    /\ \E end \in ItemEndings :
          citems' = [citems EXCEPT ![i] = IF end = "ok" THEN "want_ok" ELSE "want_failed"]
    /\ UNCHANGED <<CRest, cenv, cpc, cprocessed, csucc, cfail, cintr, cexit>>

\* a lock that excludes nobody
LockNeverHeld(lock) == TRUE

\* with self.progress_lock: the lock can be taken when no thread holds it
LockFree(lock) == lock = 0

\* batch_processor.py: the thread enters progress_lock and reads
\* processed_count
PoolEnter(i) ==
    /\ cpc = "collect" /\ citems[i] \in {"want_ok", "want_failed"}
    /\ LockFree(clock)
    /\ clock' = i
    /\ cread' = [cread EXCEPT ![i] = cprocessed]
    /\ citems' = [citems EXCEPT ![i] = IF @ = "want_ok" THEN "in_ok" ELSE "in_failed"]
    /\ UNCHANGED <<CPRest, cprocessed>>

\* batch_processor.py: the thread stores the incremented count, leaves the
\* lock and returns its result
PoolLeave(i) ==
    /\ cpc = "collect" /\ citems[i] \in {"in_ok", "in_failed"}
    /\ cprocessed' = cread[i] + 1
    /\ clock' = IF clock = i THEN 0 ELSE clock
    /\ citems' = [citems EXCEPT ![i] = IF @ = "in_ok" THEN "ok" ELSE "failed"]
    /\ UNCHANGED <<CPRest, cread>>

\* batch_processor.py: the main thread takes a completed future
PoolCollect(i) ==
    /\ cpc = "collect" /\ citems[i] \in ItemEndings
    /\ citems' = [citems EXCEPT ![i] = IF @ = "ok" THEN "counted_ok" ELSE "counted_failed"]
    /\ csucc' = IF citems[i] = "ok" THEN csucc + 1 ELSE csucc
    /\ cfail' = IF citems[i] = "ok" THEN cfail ELSE cfail + 1
    /\ UNCHANGED <<CRest, cenv, cpc, cprocessed, cintr, cexit>>

\* batch_processor.py: every future is collected; main chooses the exit code
CFinishPool ==
    /\ cpc = "collect"
    /\ \A i \in Files : citems[i] \in {"counted_ok", "counted_failed"}
    /\ Exit(IF cfail = 0 THEN 0 ELSE 2)
    /\ UNCHANGED <<CRest, cenv, citems, cprocessed, csucc, cfail, cintr>>

\* Ctrl-C while the main thread is inside the try block of main
CInterrupt ==
    /\ cpc \in {"run", "loop", "collect"}
    /\ cintr' = TRUE
    /\ Exit(130)
    /\ UNCHANGED <<CRest, cenv, citems, cprocessed, csucc, cfail>>

--------------------------------------------------------------------------
\* The WebSocket server (websocket/github_cli_server.py):
\* run_solar_panel_processing, once per file sent by a client.

\* Files processed by the server in one session.
MaxJobs == 2

Uploaded == {"p1", "p2"}

NoBatch == [total |-> 0, workers |-> 0, started |-> FALSE]

NoCompletion == [sent |-> FALSE, success |-> FALSE, total |-> 0, processed |-> 0,
                 failed |-> 0]

WIdle ==
    /\ wpc = "idle" /\ wfile = "none" /\ wtrace = <<>> /\ wmeta = EmptyMap
    /\ wproc = "none" /\ wreq = 0 /\ wjobs = 0 /\ wmsgs = <<>>
    /\ wbatch = NoBatch /\ wtask = <<>> /\ wprocessed = 0 /\ wfailed = 0
    /\ wdone = NoCompletion

\* the except clause: the failure is broadcast
WFail ==
    /\ wmsgs' = Append(wmsgs, [file |-> wfile, success |-> FALSE])
    /\ wpc' = "idle"

\* a client asks for a file to be processed; the configuration is loaded
WStart ==
    /\ wpc = "idle" /\ wjobs < MaxJobs
    /\ ~wbatch.started
    /\ \E f \in Uploaded : wfile' = f
    /\ wjobs' = wjobs + 1
    /\ wpc' = "analyze" /\ wtrace' = <<>> /\ wmeta' = EmptyMap /\ wproc' = "none"
    /\ wreq' = 0
    /\ UNCHANGED <<fs, WRest, wkey, wmsgs>>

\* multi_llm.analyze_product on the file as it was sent, and the log line
\* that formats the confidence
WAnalyze ==
    /\ wpc = "analyze"
    /\ \E o \in SampleOutcomes :
          LET r == MultiLLMMetadata(wkey, o)
          IN  /\ wreq' = wreq + r.req
              /\ IF r.kind = "raise"
                 THEN WFail /\ UNCHANGED wtrace
                 ELSE /\ wpc' = "extract" /\ wtrace' = Append(wtrace, "extract")
                      /\ UNCHANGED wmsgs
    /\ UNCHANGED <<fs, WRest, wkey, wfile, wmeta, wproc, wjobs>>

\* get_enhanced_metadata on the same file; its result is not inspected
WExtract ==
    /\ wpc = "extract"
    /\ \E o1 \in SampleOutcomes, o2 \in SampleOutcomes :
          LET r == GetEnhancedMetadata(TRUE, wkey, o1, o2)
          IN  /\ wreq' = wreq + r.req
              /\ IF r.kind = "raise"
                 THEN WFail /\ UNCHANGED <<wtrace, wmeta>>
                 ELSE /\ wpc' = "image" /\ wtrace' = Append(wtrace, "extract")
                      /\ wmeta' = r.meta
                      /\ UNCHANGED wmsgs
    /\ UNCHANGED <<fs, WRest, wkey, wfile, wproc, wjobs>>

\* process_image_set(file_path, file_path, "catalog/processed/", 1); an empty
\* result is not inspected either
WImage ==
    /\ wpc = "image"
    /\ \E fault \in LegacyFaults :
          LET r == ProcessImageSet(fs, <<wfile, wfile>>, "catalog/processed", 1, fault)
          IN  /\ fs' = r.fs
              /\ IF r.raised
                 THEN WFail /\ UNCHANGED <<wtrace, wproc>>
                 ELSE /\ wproc' = r.result /\ wpc' = "upload"
                      /\ wtrace' = Append(wtrace, "image")
                      /\ UNCHANGED wmsgs
    /\ UNCHANGED <<WRest, wkey, wfile, wmeta, wreq, wjobs>>

\* github_catalog.upload_product and the broadcast of the result
WUpload ==
    /\ wpc = "upload"
    /\ \E out \in {"ok", "raise"} :
          IF out = "raise"
          THEN WFail /\ UNCHANGED wtrace
          ELSE /\ wtrace' = Append(wtrace, "upload")
               /\ wmsgs' = Append(wmsgs, [file |-> wfile, success |-> TRUE])
               /\ wpc' = "idle"
    /\ UNCHANGED <<fs, WRest, wkey, wfile, wmeta, wproc, wreq, wjobs>>

--------------------------------------------------------------------------
\* The WebSocket server, run_batch_processing: one task per image file of
\* the input directory, at most workers of them past the semaphore.

\* Image files in the input directory of a batch.
MaxBatch == 2

BatchFiles == <<"p1", "p2">>

\* run_solar_panel_processing as its caller sees it: every exception of the
\* pipeline is caught inside and broadcast, and the function returns
RunSolarPanelProcessing(files, file, key, o, o1, o2, fault, up) ==
    LET a   == MultiLLMMetadata(key, o)
        e   == GetEnhancedMetadata(TRUE, key, o1, o2)
        img == ProcessImageSet(files, <<file, file>>, "catalog/processed", 1, fault)
        extracted == a.kind # "raise" /\ e.kind # "raise"
    IN  [kind    |-> "return",
         success |-> extracted /\ ~img.raised /\ up = "ok",
         fs      |-> IF extracted THEN img.fs ELSE files]

Running == {i \in DOMAIN wtask : wtask[i].pc \in {"running", "progress"}}

\* a client sends process_batch: the image files are listed, and without
\* any the failure is broadcast at once
WBatchStart ==
    /\ wpc = "idle" /\ wjobs = 0 /\ ~wbatch.started
    /\ \E n \in 0..MaxBatch, k \in 1..MaxBatch :
          /\ wbatch' = [total |-> n, workers |-> k, started |-> TRUE]
          /\ wtask' = [i \in 1..n |-> [pc |-> "waiting", success |-> FALSE]]
          /\ wdone' = IF n = 0 THEN [NoCompletion EXCEPT !.sent = TRUE]
                      ELSE NoCompletion
    /\ UNCHANGED <<fs, wprocessed, wfailed, wmsgs, WBRest>>

\* a task passes the semaphore and enters run_solar_panel_processing
WBatchTake(i) ==
    /\ i \in DOMAIN wtask /\ wtask[i].pc = "waiting"
    /\ Cardinality(Running) < wbatch.workers
    /\ wtask' = [wtask EXCEPT ![i].pc = "running"]
    /\ UNCHANGED <<fs, wbatch, wprocessed, wfailed, wdone, wmsgs, WBRest>>

\* run_solar_panel_processing ends for the file and process_single_file
\* counts it: processed_count when the call returned, failed_count when it
\* raised
WBatchCount(i) ==
    /\ i \in DOMAIN wtask /\ wtask[i].pc = "running"
    /\ \E o \in SampleOutcomes, o1 \in SampleOutcomes, o2 \in SampleOutcomes,
          fault \in LegacyFaults, up \in {"ok", "raise"} :
          LET r == RunSolarPanelProcessing(fs, BatchFiles[i], wkey, o, o1, o2, fault, up)
          IN  /\ fs' = r.fs
              /\ wmsgs' = Append(wmsgs, [file |-> BatchFiles[i], success |-> r.success])
              /\ IF r.kind = "return"
                 THEN /\ wprocessed' = wprocessed + 1 /\ wfailed' = wfailed
                      /\ wtask' = [wtask EXCEPT ![i] = [pc |-> "progress",
                                                        success |-> r.success]]
                 ELSE /\ wfailed' = wfailed + 1 /\ wprocessed' = wprocessed
                      /\ wtask' = [wtask EXCEPT ![i] = [pc |-> "ended",
                                                        success |-> FALSE]]
    /\ UNCHANGED <<wbatch, wdone, WBRest>>

\* the progress broadcast is sent and the task leaves the semaphore
WBatchRelease(i) ==
    /\ i \in DOMAIN wtask /\ wtask[i].pc = "progress"
    /\ wtask' = [wtask EXCEPT ![i].pc = "ended"]
    /\ UNCHANGED <<fs, wbatch, wprocessed, wfailed, wdone, wmsgs, WBRest>>

\* asyncio.gather returns and the completion is broadcast
WBatchComplete ==
    /\ wbatch.started /\ wbatch.total > 0 /\ ~wdone.sent
    /\ \A i \in DOMAIN wtask : wtask[i].pc = "ended"
    /\ wdone' = [sent |-> TRUE, success |-> TRUE, total |-> wbatch.total,
                 processed |-> wprocessed, failed |-> wfailed]
    /\ UNCHANGED <<fs, wbatch, wtask, wprocessed, wfailed, wmsgs, WBRest>>

--------------------------------------------------------------------------
\* The Category Mapper applied to one metadata map: _map_to_category,
\* enhance_with_category_detection and the mapping inside
\* _parse_openai_response.

\* Longest product type, in word parts, among the enumerated ones.
MaxParts == 3

InputParts == {"solar", "panel", "post", "card", "electronic", "device", "x"}

\* product types of the scenarios, beside the enumerated ones
NamedProductTypes ==
    {<<"mono", "crystal", "line", "solar", "panel">>, <<"vintage", "post", "card">>,
     <<"post", "card", "electronic", "device">>, Unknown}

ProductTypes == UNION {[1..n -> InputParts] : n \in 0..MaxParts} \cup NamedProductTypes

Subcategories == {<<>>, <<"mono", "crystal", "line">>, <<"real", "photo">>, <<"x">>}

\* what the LLM put into category_id
LlmCategoryIds == {"absent", "", "11700", "177831"}

\* the metadata map the mapper is given
MInput ==
    LET keys == {"product_type"} \cup (IF msub = <<>> THEN {} ELSE {"subcategory"})
                \cup (IF mcat = "absent" THEN {} ELSE {"category_id"})
    IN  [k \in keys |-> IF k = "product_type" THEN mpt
                        ELSE IF k = "subcategory" THEN msub ELSE mcat]

MIdle == mpc = "idle" /\ mout = EmptyMap

NoMapper == mpt = <<>> /\ msub = <<>> /\ mcat = "absent"

\* MultiLLMAnalyzer._map_to_category(product_type, parsed_data)
MMapToCategory ==
    /\ mpc = "idle"
    /\ mpc' = "mapped" /\ mout' = MapToCategory(mpt, MInput)
    /\ UNCHANGED <<MRest, mpt, msub, mcat>>

\* enhance_with_category_detection(result)
MEnhance ==
    /\ mpc = "idle"
    /\ mpc' = "enhanced" /\ mout' = EnhanceWithCategoryDetection(MInput)
    /\ UNCHANGED <<MRest, mpt, msub, mcat>>

\* _parse_openai_response and _analyze_with_openai on a response whose JSON
\* object is the metadata map
MAnalyze ==
    /\ mpc = "idle"
    /\ mpc' = "analyzed" /\ mout' = AnalysisCategory(MInput)
    /\ UNCHANGED <<MRest, mpt, msub, mcat>>

--------------------------------------------------------------------------
\* The Consensus Merger applied to the results of the backends.

\* Most backend results merged in one call.
MaxResults == 3

\* confidences the backends are taken to report, in tenths (the LLM is free
\* to answer 95 for 95 percent, or a negative number)
Confidences == {-5, 0, 5, 10, 95}

\* the AnalysisResult of the i-th backend; its metadata tells whose it is
AnalysisResults(i) ==
    [model_name : {i}, product_type : {"Solar Panel", "Postcard"},
     category_id : {"11700", "10398"}, subcategory : {""}, confidence : Confidences,
     metadata : {[k \in {"brand"} |-> i]}]

ResultLists ==
    UNION {{s \in [1..n -> UNION {AnalysisResults(i) : i \in 1..n}] :
               \A i \in 1..n : s[i].model_name = i} : n \in 1..MaxResults}

KIdle == kpc = "idle" /\ kout = [consensus_method |-> "none"]

NoConsensus == kresults = <<>>

\* _build_consensus(results), for a non-empty list of results
KBuildConsensus ==
    /\ kpc = "idle" /\ kresults # <<>>
    /\ kpc' = "done" /\ kout' = BuildConsensus(kresults)
    /\ UNCHANGED <<KRest, kresults>>

\* analyze_product with its one backend: the result of _analyze_with_openai
\* is merged, and no result raises
KAnalyzeProduct ==
    /\ kpc = "idle" /\ Len(kresults) = 1
    /\ \E answered \in BOOLEAN :
          kout' = IF answered THEN BuildConsensus(kresults)
                  ELSE [consensus_method |-> "raised"]
    /\ kpc' = "done"
    /\ UNCHANGED <<KRest, kresults>>

--------------------------------------------------------------------------
\* The CSV Row Builder (core/csv_generator.py) applied to one template.

\* Most columns of a template header, among the enumerated ones.
MaxColumns == 3

\* column names of the templates: columns fill_row assigns, and one it
\* never assigns
TemplateColumns ==
    {"*Action", "Title", "Item photo URL", "Condition ID", "C:Region", "C:City", "Subtitle"}

\* templates with every column fill_row assigns, in two orders
FullTemplates ==
    {<<"Subtitle">> \o AssignedColumns,
     <<"C:City", "C:Region", "Condition ID", "Subtitle", "Item photo URL", "Title", "*Action">>}

\* list(template.columns): read_csv makes the names distinct
Templates ==
    UNION {{h \in [1..n -> TemplateColumns] : \A i, j \in 1..n : h[i] = h[j] => i = j}
              : n \in 0..MaxColumns} \cup FullTemplates

\* the metadata of the item: nothing, a title, or title and place
RowMetadata ==
    {EmptyMap, [k \in {"Title"} |-> "X"],
     [k \in {"Title", "Region", "City"} |-> IF k = "Title" THEN "X" ELSE "Y"]}

RIdle == rpc = "idle" /\ rout = [raised |-> FALSE, keys |-> <<>>]

NoRow == rheaders = <<>> /\ rmeta = EmptyMap /\ rhtml = {}

Columns(h) == {h[i] : i \in DOMAIN h}

\* fill_row(headers, metadata, ...): the keys of the returned Series
RFillRow ==
    /\ rpc = "idle"
    /\ rpc' = "filled"
    /\ LET r == FillRow(Columns(rheaders), rmeta, <<"u">>, rhtml)
       IN  rout' = [raised |-> r.raised,
                    keys |-> IF r.raised THEN <<>> ELSE RowKeys(rheaders)]
    /\ UNCHANGED <<RRest, rheaders, rmeta, rhtml>>

\* generate_csv for two items, the given one and one without metadata: the
\* columns of the file are those of the rows
RGenerateCsv ==
    /\ rpc = "idle"
    /\ rpc' = "written"
    /\ LET r1 == FillRow(Columns(rheaders), rmeta, <<"u">>, rhtml)
           r2 == FillRow(Columns(rheaders), EmptyMap, <<"u">>, rhtml)
       IN  rout' = [raised |-> r1.raised \/ r2.raised,
                    keys |-> IF r1.raised \/ r2.raised THEN <<>> ELSE RowKeys(rheaders)]
    /\ UNCHANGED <<RRest, rheaders, rmeta, rhtml>>

--------------------------------------------------------------------------
\* The vision composite (resize_by_height and combine_side_by_side of
\* core/image_processor.py) applied to the sizes of two images.

\* the sizes of the photographs, in pixels: lower than, as high as and
\* higher than max_height
ImageSizes == [w : {400, 800, 2400}, h : {600, 1200, 1600, 2400, 3200}]

NoImage == [w |-> 0, h |-> 0]

Placed(img) == [w |-> img.w, h |-> img.h, x |-> 0, y |-> 0]

IIdle == ipc = "idle" /\ iout = [w |-> 0, h |-> 0, front |-> Placed(NoImage),
                                 back |-> Placed(NoImage)]

NoComposite == ifront = NoImage /\ iback = NoImage

\* resize_by_height(front)
IResizeByHeight ==
    /\ ipc = "idle"
    /\ ipc' = "resized"
    /\ LET r == ResizeByHeight(ifront)
       IN  iout' = [w |-> r.w, h |-> r.h, front |-> Placed(r), back |-> Placed(NoImage)]
    /\ UNCHANGED <<IRest, ifront, iback>>

\* combine_side_by_side(front, back)
ICombineSideBySide ==
    /\ ipc = "idle"
    /\ ipc' = "combined" /\ iout' = CombineSideBySide(ifront, iback)
    /\ UNCHANGED <<IRest, ifront, iback>>

--------------------------------------------------------------------------
\* ConfigManager instances sharing config/settings.json.

\* ConfigManager instances constructed in one run.
MaxManagers == 2

\* Calls of ConfigManager.set in one run.
MaxSets == 2

\* keys given to set: two strings and an int
ConfigKeys == {"test_key", "openai_api_key", "int 1"}

\* values given to set: a string, a boolean, a tuple and a set
ConfigValues == {"str test_value", "bool True", "tuple (1, 2)", "set {1}"}

\* what the disk does when save_config writes
DiskOutcomes == {"ok", "ioerror"}

Unbuilt == [built |-> FALSE, config |-> EmptyMap]

FIdle ==
    /\ fcfg = [m \in 1..MaxManagers |-> Unbuilt]
    /\ fset = [m \in 1..MaxManagers |-> EmptyMap]
    /\ fsets = 0 /\ fsnap = [wrote |-> "never", sets |-> EmptyMap] /\ ffresh = {}

NoConfig == ffile = NoFile /\ ftemplate = FALSE

\* ConfigManager(): the constructor runs load_config
FNew(m) ==
    /\ ~fcfg[m].built
    /\ \E disk \in DiskOutcomes :
          LET r == LoadConfig(ffile, ftemplate, disk)
          IN  /\ fcfg' = [fcfg EXCEPT ![m] = [built |-> TRUE, config |-> r.config]]
              /\ ffile' = r.file
    /\ ffresh' = ffresh \cup {m}
    /\ UNCHANGED <<FRest, ftemplate, fset, fsets, fsnap>>

\* set(key, value)
FSetValue(m) ==
    /\ fcfg[m].built /\ fsets < MaxSets
    /\ \E k \in ConfigKeys, v \in ConfigValues :
          /\ fcfg' = [fcfg EXCEPT ![m].config = Update(@, [j \in {k} |-> v])]
          /\ fset' = [fset EXCEPT ![m] = Update(@, [j \in {k} |-> v])]
    /\ fsets' = fsets + 1
    /\ ffresh' = ffresh \ {m}
    /\ UNCHANGED <<FRest, ffile, ftemplate, fsnap>>

\* save_config()
FSaveConfig(m) ==
    /\ fcfg[m].built
    /\ \E disk \in DiskOutcomes :
          LET r == SaveConfig(fcfg[m].config, ffile, disk)
          IN  /\ ffile' = r.file
              /\ fsnap' = [wrote |-> r.wrote, sets |-> fset[m]]
    /\ ffresh' = {}
    /\ UNCHANGED <<FRest, ftemplate, fcfg, fset, fsets>>
--------------------------------------------------------------------------
\* The GitHub upload, run again and again on one repository.

MaxAttempts == 3

\* what the git commands of one upload meet, and whether .gitignore names
\* logs/: outside a repository every command fails, without a remote the
\* push fails
GitEnvs ==
    {e \in [repo : BOOLEAN, remote : BOOLEAN, add : BOOLEAN, status : BOOLEAN,
            commit : BOOLEAN, push : BOOLEAN, ignored : BOOLEAN] :
        /\ ~e.repo => ~e.remote /\ ~e.add /\ ~e.status /\ ~e.commit /\ ~e.push
        /\ ~e.remote => ~e.push}

NoUpload == UploadResult(FALSE, "", 0, FALSE, 0)

HIdle ==
    /\ hdirty = FALSE /\ hahead = 0 /\ hcalls = 0 /\ hby = "none"
    /\ hres = NoUpload

\* the pipeline writes or changes a file of the repository
HWriteFile ==
    /\ ~hdirty
    /\ hcalls < MaxAttempts
    /\ hdirty' = TRUE
    /\ UNCHANGED <<hahead, hcalls, hby, hres, HRest>>

\* one upload, from its first git command to its result
HUpload(by) ==
    /\ hcalls < MaxAttempts
    /\ \E e \in GitEnvs :
          LET r == IF by = "handler" THEN UploadToGithub(hdirty, hahead, e)
                   ELSE HandleRealGithubUpload(hdirty, hahead, e)
          IN  /\ hres' = r
              /\ hdirty' = r.dirty
              /\ hahead' = r.ahead
    /\ hby' = by
    /\ hcalls' = hcalls + 1
    /\ UNCHANGED HRest
--------------------------------------------------------------------------
\* The WebSocket servers: the terminal bridge (websocket/server.py), the
\* working, the fixed and the resilient server.  A client is a connection
\* object; every await of a send is a point at which other tasks run.

MaxClients == 2

MaxMessages == 3

\* register_client of the resilient server replays the last ten messages
ReplayLimit == 10

Clients == 1..MaxClients

ServerKinds == {"bridge", "working", "fixed", "resilient"}

\* who begins a broadcast: a task of the server itself (process_terminal_queue,
\* health_monitor), written 0, or the handler of a client in handle_message
ServerTask == 0

NoHandler == [pc |-> "none", rest |-> <<>>, raised |-> FALSE]

NoBroadcast == [pc |-> "idle", msg |-> 0, by |-> ServerTask, size |-> 0, copy |-> {},
                seen |-> {}, stable |-> {}, got |-> {}, gone |-> {}]

NoReport == [msg |-> 0, raised |-> FALSE, stable |-> {}, got |-> {}]

SIdle ==
    /\ skind = "none" /\ sclients = {}
    /\ sconn = [c \in Clients |-> "new"]
    /\ sh = [c \in Clients |-> NoHandler]
    /\ srecv = [c \in Clients |-> <<>>]
    /\ sq = <<>> /\ snext = 0 /\ sb = NoBroadcast /\ slast = NoReport

\* one of the servers is started
SStart ==
    /\ skind = "none"
    /\ skind' \in ServerKinds
    /\ UNCHANGED <<sclients, sconn, sh, srecv, sq, snext, sb, slast, fs, SRest>>

\* message_queue[-10:]
LastN(q, n) == IF Len(q) <= n THEN q ELSE SubSeq(q, Len(q) - n + 1, Len(q))

\* await websocket.send(...): the message arrives on an open connection
Send(recv, c, m) == IF sconn[c] = "open" THEN [recv EXCEPT ![c] = Append(@, m)] ELSE recv

\* a client connects and its handler runs up to its first await:
\* register_client adds it to self.clients and sends the welcome message or,
\* in the resilient server, the first of the queued messages
SConnect(c) ==
    /\ skind # "none" /\ sconn[c] = "new"
    /\ sconn' = [sconn EXCEPT ![c] = "open"]
    /\ sclients' = sclients \cup {c}
    /\ IF skind = "resilient"
       THEN LET replay == LastN(sq, ReplayLimit)
            IN  IF replay = <<>>
                THEN sh' = [sh EXCEPT ![c].pc = "serving"] /\ UNCHANGED srecv
                ELSE /\ srecv' = [srecv EXCEPT ![c] = Append(@, Head(replay))]
                     /\ sh' = [sh EXCEPT ![c] = [pc |-> "replay", rest |-> Tail(replay),
                                                 raised |-> FALSE]]
       ELSE sh' = [sh EXCEPT ![c].pc = "welcome"] /\ UNCHANGED srecv
    /\ UNCHANGED <<skind, sq, snext, sb, slast, fs, SRest>>

\* the send of the welcome message returns, or raises because the connection
\* is gone: only the fixed server catches that inside register_client
SWelcome(c) ==
    /\ sh[c].pc = "welcome"
    /\ IF sconn[c] = "open" \/ skind = "fixed"
       THEN sh' = [sh EXCEPT ![c].pc = "serving"]
       ELSE sh' = [sh EXCEPT ![c] = [pc |-> "finished", rest |-> <<>>, raised |-> TRUE]]
    /\ UNCHANGED <<skind, sclients, sconn, srecv, sq, snext, sb, slast, fs, SRest>>

\* the resilient server sends the next queued message to the new client
SReplay(c) ==
    /\ sh[c].pc = "replay"
    /\ IF sh[c].rest = <<>>
       THEN sh' = [sh EXCEPT ![c].pc = "serving"] /\ UNCHANGED srecv
       ELSE /\ srecv' = Send(srecv, c, Head(sh[c].rest))
            /\ sh' = [sh EXCEPT ![c].rest = Tail(@)]
    /\ UNCHANGED <<skind, sclients, sconn, sq, snext, sb, slast, fs, SRest>>

\* the connection of a client closes
SClose(c) ==
    /\ sconn[c] = "open"
    /\ sconn' = [sconn EXCEPT ![c] = "closed"]
    /\ sb' = [sb EXCEPT !.stable = @ \ {c}]
    /\ UNCHANGED <<skind, sclients, sh, srecv, sq, snext, slast, fs, SRest>>

\* the handler leaves its loop (wait_closed in the bridge) and runs its
\* finally clause: the bridge removes the client, a KeyError when a
\* broadcast has removed it before; the others call unregister_client
SFinish(c) ==
    /\ sh[c].pc = "serving" /\ sconn[c] = "closed"
    /\ ~(sb.pc = "sending" /\ sb.by = c)
    /\ sh' = [sh EXCEPT ![c] = [pc |-> "finished", rest |-> <<>>,
                                raised |-> skind = "bridge" /\ c \notin sclients]]
    /\ sclients' = sclients \ {c}
    /\ UNCHANGED <<skind, sconn, srecv, sq, snext, sb, slast, fs, SRest>>

\* the end of a broadcast that was not interrupted: the clients whose send
\* failed are removed, and the resilient server queues the message
BroadcastEnd(b) ==
    /\ sclients' = sclients \ b.gone
    /\ sq' = IF skind = "resilient" THEN Append(sq, b.msg) ELSE sq
    /\ slast' = [msg |-> b.msg, raised |-> FALSE, stable |-> b.stable, got |-> b.got]
    /\ sb' = NoBroadcast
    /\ UNCHANGED srecv

\* the broadcast sends to the client c and waits for the send
BroadcastSend(b, c) ==
    /\ srecv' = Send(srecv, c, b.msg)
    /\ sb' = [b EXCEPT !.pc = "sending", !.seen = @ \cup {c},
                       !.got = IF sconn[c] = "open" THEN @ \cup {c} ELSE @,
                       !.gone = IF sconn[c] = "open" THEN @ ELSE @ \cup {c}]
    /\ UNCHANGED <<sclients, sq, slast>>

\* a broadcast begins: without clients it returns at once (the resilient
\* server queues the message); otherwise it takes the first client of
\* self.clients, or of a copy of it, and sends
SBroadcastStart(by) ==
    /\ skind # "none" /\ sb.pc = "idle" /\ snext < MaxMessages
    /\ IF skind \in {"bridge", "resilient"} THEN by = ServerTask
       ELSE by \in Clients /\ sh[by].pc = "serving" /\ sconn[by] = "open"
    /\ snext' = snext + 1
    /\ LET b == [NoBroadcast EXCEPT !.msg = snext + 1, !.by = by,
                                    !.size = Cardinality(sclients), !.copy = sclients,
                                    !.stable = {c \in sclients : sconn[c] = "open"}]
       IN  IF sclients = {}
           THEN BroadcastEnd(b)
           ELSE \E c \in sclients : BroadcastSend(b, c)
    /\ UNCHANGED <<skind, sconn, sh, fs, SRest>>

\* the loop of the broadcast goes on after a send.  The bridge iterates
\* self.clients itself: the iterator raises RuntimeError when the size of
\* the set has changed, and when only its members have changed what is left
\* to visit is not defined.  The other servers iterate their copy
SBroadcastStep ==
    /\ sb.pc = "sending"
    /\ IF skind = "bridge"
       THEN IF Cardinality(sclients) # sb.size
            THEN /\ slast' = [msg |-> sb.msg, raised |-> TRUE, stable |-> sb.stable,
                              got |-> sb.got]
                 /\ sb' = NoBroadcast
                 /\ UNCHANGED <<sclients, srecv, sq>>
            ELSE \/ \E c \in sclients \ sb.seen : BroadcastSend(sb, c)
                 \/ /\ sclients \ sb.seen = {} \/ sclients # sb.copy
                    /\ BroadcastEnd(sb)
       ELSE IF sb.copy \ sb.seen # {}
            THEN \E c \in sb.copy \ sb.seen : BroadcastSend(sb, c)
            ELSE BroadcastEnd(sb)
    /\ UNCHANGED <<skind, sconn, sh, snext, fs, SRest>>
--------------------------------------------------------------------------
\* create_listings of the legacy GUI (app.py) on one subfolder of the input
\* directory, clicked again and again.  The names in the subfolder are
\* records of a prefix, a digit and an extension; process_image_set writes
\* its four files into the subfolder itself.

\* clicks on Create Listings
MaxClicks == 2

\* the digits of the raw file names
MaxRaw == 2

\* the prefixes of the file names, in the order in which strings sort
Prefixes == <<"IMG_", "back_", "final_", "front_", "scan_", "vision_">>

\* the extensions of the file names, in the order in which strings sort
Extensions == <<".JPG", ".jpg", ".png">>

IndexIn(seq, x) == CHOOSE i \in DOMAIN seq : seq[i] = x

\* the names a camera or a scanner gives
RawNames == [prefix : {"IMG_", "scan_"}, n : 1..MaxRaw, ext : {".JPG", ".jpg", ".png"}]

\* the raw files of the subfolder: two or three
RawSets == {s \in SUBSET RawNames : Cardinality(s) \in 2..3}

\* the subfolder
InputDir == "input"

\* the name process_image_set gives the variant of this role and index
OutputName(role, index) ==
    [prefix |-> CASE role = "front" -> "front_" [] role = "back" -> "back_"
                  [] role = "vision" -> "vision_" [] OTHER -> "final_",
     n |-> index, ext |-> ".jpg"]

\* os.listdir(folder): the raw files and the files written into it
ListDir(files, raw) ==
    raw \cup {OutputName(f[2], f[3]) : f \in {g \in DOMAIN files : g[1] = InputDir}}

\* the order of two names as strings
NameBefore(a, b) ==
    \/ IndexIn(Prefixes, a.prefix) < IndexIn(Prefixes, b.prefix)
    \/ /\ a.prefix = b.prefix
       /\ \/ a.n < b.n
          \/ a.n = b.n /\ IndexIn(Extensions, a.ext) < IndexIn(Extensions, b.ext)

RECURSIVE SortNames(_)
\* files.sort()
SortNames(names) ==
    IF names = {} THEN <<>>
    ELSE LET first == CHOOSE a \in names : \A b \in names \ {a} : NameBefore(a, b)
         IN  <<first>> \o SortNames(names \ {first})

\* get_image_pairs(folder): the names ending in .jpg, in any case, that do
\* not start with vision_ or final_, sorted and paired two by two; a last
\* name without a partner is dropped
GetImagePairs(listing) ==
    LET files == SortNames({f \in listing : /\ f.ext \in {".jpg", ".JPG"}
                                            /\ f.prefix # "vision_"
                                            /\ f.prefix # "final_"})
    IN  [k \in 1..(Len(files) \div 2) |-> <<files[2 * k - 1], files[2 * k]>>]

AIdle ==
    /\ apc = "idle" /\ apairs = <<>> /\ ai = 0 /\ arows = <<>>
    /\ aruns = 0 /\ acsv = FALSE

\* the loop over the pairs goes on, or leaves for generate_csv
AAdvance ==
    IF ai + 1 < Len(apairs) THEN ai' = ai + 1 /\ apc' = "pair"
    ELSE ai' = ai /\ apc' = "csv"

\* the except clause of the subfolder: the error is logged, no CSV written
AFolderError == apc' = "idle" /\ ai' = ai

\* the button is clicked: a subfolder with a CSV file is skipped, any other
\* is listed
AStart ==
    /\ apc = "idle" /\ aruns < MaxClicks
    /\ aruns' = aruns + 1
    /\ IF acsv THEN UNCHANGED <<apc, apairs, ai, arows>>
       ELSE /\ apairs' = GetImagePairs(ListDir(fs, araw))
            /\ arows' = <<>> /\ ai' = 0
            /\ apc' = IF apairs' = <<>> THEN "csv" ELSE "pair"
    /\ UNCHANGED <<fs, ARest, araw, acsv>>

\* one pass of the loop: process_image_set into the subfolder, then
\* get_postcard_metadata, the three uploads and all_rows.append
APair ==
    /\ apc = "pair"
    /\ \E fault \in ImgFaults, data \in BOOLEAN, o \in SampleOutcomes, outs \in UploadSamples :
          LET r == ProcessImageSet(fs, apairs[ai + 1], InputDir, ai, fault)
              m == VisionGetPostcardMetadata(data, o)
              u == Uploads(InputDir, ai, outs)
          IN  /\ fs' = r.fs
              /\ IF r.result = "empty" THEN AAdvance /\ UNCHANGED arows
                 ELSE IF m.kind = "raise" \/ u.raised THEN AFolderError /\ UNCHANGED arows
                 ELSE /\ arows' = Append(arows, [pair |-> ai, metadata |-> m.meta,
                                                  urls |-> u.urls])
                      /\ AAdvance
    /\ UNCHANGED <<ARest, araw, apairs, aruns, acsv>>

\* generate_csv for the subfolder, then the Completed message
ACsv ==
    /\ apc = "csv"
    /\ \E html \in {{}, {"Title"}} :
          LET r == GenerateCsv(6, arows, html)
          IN  acsv' = ~r.raised
    /\ apc' = "idle"
    /\ UNCHANGED <<fs, ARest, araw, apairs, ai, arows, aruns>>
--------------------------------------------------------------------------
\* The specifications, one per entry point.

Init == fs = EmptyMap /\ XIdle /\ LIdle /\ BIdle /\ GIdle /\ CIdle /\ WIdle
        /\ MIdle /\ KIdle /\ RIdle /\ IIdle /\ FIdle
        /\ HIdle /\ SIdle /\ AIdle
        /\ araw \in {{}} \cup RawSets
        /\ wkey \in BOOLEAN
        /\ cenv \in CEnvs
        /\ lenv \in LEnvs /\ gconf \in Configs
        /\ gform \in {gconf, [gconf EXCEPT !.key = FALSE]} /\ gfile = gconf

NoLegacy == lenv = [input |-> FALSE, data |-> FALSE, html |-> {},
                    pairs |-> [f \in Folders |-> 0], processed |-> {}]

NoGui == gconf = [key |-> FALSE, multi |-> TRUE, catalog |-> FALSE] /\ gform = gconf

NoCli == cenv = [script |-> "main", mode |-> "batch", config |-> FALSE, dir |-> FALSE,
                 n |-> 0, workers |-> 1]

\* nothing is in the subfolder that is processed again and again
NoAgain == araw = {}

\* the components that are functions of their arguments are given nothing
NoPure == NoMapper /\ NoConsensus /\ NoRow /\ NoComposite /\ NoConfig

XInit == Init /\ NoAgain /\ NoLegacy /\ NoGui /\ NoCli /\ ~wkey /\ NoPure

XNext == XCall \/ XTry \/ XExcept

SpecExtract == XInit /\ [][XNext]_vars

LNext == LStart \/ LFolder \/ LImage \/ LExtract \/ LUpload \/ LCsv

LInit == Init /\ NoAgain /\ NoGui /\ NoCli /\ ~wkey /\ NoPure

SpecLegacy == LInit /\ [][LNext]_vars

SpecBuilder == XInit /\ [][BProcess]_vars

GInit == Init /\ NoAgain /\ NoLegacy /\ NoCli /\ ~wkey /\ NoPure

GNext ==
    \/ GSelectFront \/ GSelectBack \/ GSaveConfig \/ GStartProcessing
    \/ \E named \in BOOLEAN, template \in BOOLEAN : GExport(named, template)
    \/ \E w \in 1..MaxRuns : PSave(w) \/ PExtract(w) \/ PUpload(w)
    \/ \E b \in {"settings", "results"} : GUploadClick(b)
    \/ UFinish \/ GHandle

SpecGui == GInit /\ [][GNext]_vars

CInit == Init /\ NoAgain /\ NoLegacy /\ NoGui /\ ~wkey /\ NoPure

CNext ==
    \/ CLoadConfig \/ CBegin \/ CItem \/ CFinishMain
    \/ \E i \in 1..MaxFiles : PoolTake(i) \/ PoolDone(i) \/ PoolEnter(i) \/ PoolLeave(i)
                               \/ PoolCollect(i)
    \/ CFinishPool \/ CInterrupt

SpecCli == CInit /\ [][CNext]_vars

WInit == Init /\ NoAgain /\ NoLegacy /\ NoGui /\ NoCli /\ NoPure

WNext ==
    \/ WStart \/ WAnalyze \/ WExtract \/ WImage \/ WUpload
    \/ WBatchStart \/ WBatchComplete
    \/ \E i \in 1..MaxBatch : WBatchTake(i) \/ WBatchCount(i) \/ WBatchRelease(i)

SpecWs == WInit /\ [][WNext]_vars


\* every other component at rest
Quiet == NoAgain /\ NoLegacy /\ NoGui /\ NoCli /\ wkey = FALSE

MInit ==
    /\ Quiet /\ NoConsensus /\ NoRow /\ NoComposite /\ NoConfig /\ Init
    /\ mpt \in ProductTypes /\ msub \in Subcategories /\ mcat \in LlmCategoryIds

MNext == MMapToCategory \/ MEnhance \/ MAnalyze

SpecMapper == MInit /\ [][MNext]_vars

KInit == Quiet /\ NoMapper /\ NoRow /\ NoComposite /\ NoConfig /\ Init /\ kresults \in ResultLists

KNext == KBuildConsensus \/ KAnalyzeProduct

SpecConsensus == KInit /\ [][KNext]_vars

RInit ==
    /\ Quiet /\ NoMapper /\ NoConsensus /\ NoComposite /\ NoConfig /\ Init
    /\ rheaders \in Templates /\ rmeta \in RowMetadata /\ rhtml \in {{}, {"Title"}}

RNext == RFillRow \/ RGenerateCsv

SpecRow == RInit /\ [][RNext]_vars

IInit ==
    /\ Quiet /\ NoMapper /\ NoConsensus /\ NoRow /\ NoConfig /\ Init
    /\ ifront \in ImageSizes /\ iback \in ImageSizes

INext == IResizeByHeight \/ ICombineSideBySide

SpecComposite == IInit /\ [][INext]_vars

FInit ==
    /\ Quiet /\ NoMapper /\ NoConsensus /\ NoRow /\ NoComposite /\ Init
    /\ ffile \in {NoFile, [state |-> "ok", obj |-> JsonDumpObject(TemplateConfig).obj]}
    /\ ftemplate \in BOOLEAN

FNext == \E m \in 1..MaxManagers : FNew(m) \/ FSetValue(m) \/ FSaveConfig(m)

SpecConfig == FInit /\ [][FNext]_vars

HInit == Quiet /\ NoPure /\ Init

HNext == HWriteFile \/ \E by \in {"handler", "server"} : HUpload(by)

SpecUpload == HInit /\ [][HNext]_vars

SInit ==
    /\ Quiet /\ NoPure /\ Init

SNext ==
    \/ SStart
    \/ \E c \in Clients : SConnect(c) \/ SWelcome(c) \/ SReplay(c) \/ SClose(c) \/ SFinish(c)
    \/ \E by \in Clients \cup {ServerTask} : SBroadcastStart(by)
    \/ SBroadcastStep

SpecServers == SInit /\ [][SNext]_vars

AInit == NoLegacy /\ NoGui /\ NoCli /\ wkey = FALSE /\ NoPure /\ Init /\ araw # {}

ANext == AStart \/ APair \/ ACsv

SpecAgain == AInit /\ [][ANext]_vars
--------------------------------------------------------------------------
\* The claims of the specification, checked against the model.

XLast == xtrail[Len(xtrail)]

XUnparsed == xpc = "done" /\ xtrail # <<>> /\ XLast.pf

C7_MultiWitness ==
    /\ XUnparsed /\ XLast.by = "multi" /\ xres.meta = Update(ParseFailureDefault,
                                  [k \in {"analysis_method"} |-> "multi_llm_single_model"])

C9_EmptyResultOnFailure ==
    blast.fault # "none" =>
        /\ blast.result = "empty" /\ ~blast.raised
        /\ \A role \in {"front", "back", "vision", "final"} :
              ~Passed(SaveStep(role), blast.fault) =>
                  LET f == File(blast.dir, role, blast.index)
                  IN  IF f \in DOMAIN blast.before
                      THEN f \in DOMAIN fs /\ fs[f] = blast.before[f]
                      ELSE f \notin DOMAIN fs

C9_Witness ==
    /\ blast.fault = "save_back" /\ blast.result = "empty" /\ ~blast.raised
    /\ File(blast.dir, "front", blast.index) \in DOMAIN fs

\* the subfolder f has just left generate_csv, one way or the other
LeftCsv(f) ==
    /\ lpc = "folder" /\ lf = f + 1
    /\ lsum[f].status = "completed" \/ lsum[f].why = "fill_row"

\* C2 as stated: a failure at one item never aborts the run; every item of
\* every subfolder the run had to process is attempted.  Here for
\* create_listings of the legacy GUI, items being the pairs of a subfolder.
C2_EveryItemAttempted ==
    lpc = "done" /\ lenv.input =>
        \A f \in Folders \ lenv.processed : lsum[f].attempted = lenv.pairs[f]

\* C6 as stated: an item whose extraction gave the empty map still gets its
\* CSV row, with the metadata columns empty, and the run of its subfolder
\* does not fail.
C6_RowStillProduced ==
    \A f \in Folders :
        LeftCsv(f) /\ (\E i \in 1..Len(lrows) : lrows[i].metadata = EmptyMap) =>
            /\ lsum[f].status = "completed"
            /\ Len(lcsv) = Len(lrows)
            /\ \A i \in 1..Len(lrows) :
                  lrows[i].metadata = EmptyMap =>
                      lcsv[i]["Title"] = <<"">> /\ lcsv[i]["C:Region"] = <<"">>

\* the part of C6 that holds: without placeholders in custom_html the row
\* of an item with empty metadata is written
C6_HoldsWithoutPlaceholders ==
    \E f \in Folders :
        /\ LeftCsv(f) /\ lsum[f].status = "completed" /\ lenv.html = {}
        /\ \E i \in 1..Len(lrows) :
              lrows[i].metadata = EmptyMap /\ lcsv[i]["Title"] = <<"">>

\* the PostcardProcessor threads inside run
Processing == {w \in 1..MaxRuns : gw[w].pc \in {"image", "extract", "upload"}}

Signals == {gqueue[i] : i \in 1..Len(gqueue)}

Results == {gresults[i] : i \in 1..Len(gresults)}

\* C3 as stated: an item whose extraction succeeded and whose upload failed
\* is recorded as failed, not as completed.
C3_Original ==
    /\ \A s \in Signals : s.upload = "raise" => s.kind = "error"
    /\ \A r \in Results : r.upload # "raise"

\* C3, amended: in the integrated GUI an item whose extraction succeeded and
\* whose catalog upload failed is reported with processing_complete and
\* recorded in results_data as completed, with its metadata and with no
\* catalog URLs; error_occurred is emitted only for items that never reached
\* the upload.
C3_Amended ==
    /\ \A s \in Signals :
          /\ s.upload = "raise" =>
                s.kind = "complete" /\ s.urls = NoUrls /\ s.meta # EmptyMap
          /\ s.kind = "error" => s.upload = "notreached"
          /\ s.kind = "complete" /\ s.upload = "ok" =>
                DOMAIN s.urls = {"front", "back", "final"}
    /\ \A r \in Results :
          /\ r.upload = "raise" => r.urls = NoUrls /\ r.meta # EmptyMap
          /\ r.upload = "ok" => DOMAIN r.urls = {"front", "back", "final"}

C3_Witness ==
    \E r \in Results : r.upload = "raise" /\ r.urls = NoUrls /\ r.meta # EmptyMap

\* C5 as stated: two workers never run concurrently; at any time at most
\* one PostcardProcessor or GitHubUploadWorker thread is running.
C5_OneWorkerAtATime == Cardinality(Processing) + gup <= 1

\* two PostcardProcessor threads writing the same output files at once
C5_TwoProcessors ==
    /\ Cardinality(Processing) = 2
    /\ \A w \in Processing : gw[w].pc = "image" /\ gw[w].saved = 1

\* C10 as stated: processing a different ImageSet never overwrites the
\* output files of an ImageSet; the files of every item in results_data
\* still hold that item's images.
C10_OutputsKeepTheirImageSet ==
    \A r \in Results :
        \A role \in {"front", "back", "vision", "final"} :
            /\ File("output", role, 1) \in DOMAIN fs
            /\ fs[File("output", role, 1)] = r.set

\* C4 as stated: the CLI exits with 130 after a user interrupt, with 1 on a
\* configuration or other generic failure (no configuration, no input
\* directory, a failed single item), with 0 when every item succeeded and
\* with 2 when the batch completed with at least one failed item.
C4_ExitCodes ==
    cexit # -1 =>
        cexit = IF cintr THEN 130
                ELSE IF ~cenv.config \/ (cenv.mode = "batch" /\ ~cenv.dir) THEN 1
                ELSE IF cenv.mode = "single" THEN (IF cfail = 0 THEN 0 ELSE 1)
                ELSE IF cfail = 0 THEN 0 ELSE 2

\* the batch processor on the same input, a directory without image files
C4_PoolEmptyDirectory ==
    /\ cenv.script = "pool" /\ cenv.config /\ cenv.dir /\ cenv.n = 0 /\ cexit = 0

Rank(step) ==
    CASE step = "image" -> 1 [] step = "extract" -> 2 [] step = "upload" -> 3
      [] OTHER -> 4

\* the steps of one ImageSet come in pipeline order, none of them before
\* the steps that precede it in the pipeline
InOrder(t) ==
    \A j \in 1..Len(t) :
        /\ \A i \in 1..(j - 1) : Rank(t[i]) < Rank(t[j])
        /\ \A n \in 1..(Rank(t[j]) - 1) : \E i \in 1..(j - 1) : Rank(t[i]) = n

\* C1 as stated: for every file the steps finish in the order image build,
\* metadata extraction, upload, CSV row build; extraction never happens
\* before the image variants are built.
C1_StepsInOrder == InOrder(wtrace)

\* the same order does hold in create_listings of the legacy GUI
C1_LegacyInOrder == \A p \in DOMAIN ltrace : InOrder(ltrace[p])

C1_LegacyAllSteps ==
    \E p \in DOMAIN ltrace : ltrace[p] = <<"image", "extract", "upload", "row">>


\* C11 as stated: the configuration (ConfigManager.config and
\* config/settings.json) is changed only by the explicit save action of the
\* settings form, never by processing or uploading.
C11_ConfigChangedOnlyBySave ==
    [][(gconf' # gconf \/ gfile' # gfile) => GSaveConfig]_vars

\* a click on Upload to GitHub has just written the unsaved form into the
\* configuration while a PostcardProcessor holding that configuration runs
C11_UploadRewritesConfig ==
    /\ gups = 1 /\ ~gconf.key /\ ~gfile.key
    /\ \E w \in Processing : gw[w].pc = "extract"

\* the score the specification gives a category: 10 when the category name
\* occurs in the product type, and 1 for every keyword that occurs in it
StatedScore(productType, cat) ==
    (IF Contains(productType, cat.name) THEN 10 ELSE 0)
    + Cardinality({k \in 1..Len(cat.keywords) : Contains(productType, cat.keywords[k])})

\* the category_id of the first category with the highest stated score,
\* empty when no category scores
StatedCategory(productType) ==
    LET scores == [i \in 1..Len(CategoryTable) |-> StatedScore(productType, CategoryTable[i])]
        top    == SetMax({scores[i] : i \in 1..Len(CategoryTable)})
    IN  IF top = 0 THEN ""
        ELSE CategoryTable[SetMin({i \in 1..Len(CategoryTable) : scores[i] = top})].id

TableIds == {CategoryTable[i].id : i \in 1..Len(CategoryTable)}

\* C12 as stated: for every product type the mapper returns the category
\* with the highest score, the score being 10 for the category name
\* occurring in the product type plus 1 per keyword occurring in it, and a
\* tie going to the category that is first in the table.
C12_StatedScoring ==
    mpc \in {"mapped", "analyzed"} => mout.category_id = StatedCategory(mpt)

\* where the two scorings agree: a product type made of a category name
C12_AgreesOnCategoryNames ==
    mpc = "mapped" /\ (\E i \in 1..Len(CategoryTable) : mpt = CategoryTable[i].name)
        => mout.category_id = StatedCategory(mpt)

\* C13 as stated: metadata whose only field is product_type =
\* Monocrystalline Solar Panel gets category_id 11700 and subcategory_id
\* 11701.
C13_MonocrystallineScenario ==
    /\ mpc # "idle" /\ mpt = <<"mono", "crystal", "line", "solar", "panel">>
    /\ msub = <<>> /\ mcat = "absent"
    => /\ Get(mout, "category_id", "") = "11700"
       /\ Get(mout, "subcategory_id", "") = "11701"

\* what the scenario of C13 does give: the category, and no subcategory
C13_CategoryOnly ==
    /\ mpc # "idle" /\ mpt = <<"mono", "crystal", "line", "solar", "panel">>
    /\ msub = <<>> /\ mcat = "absent"
    => /\ Get(mout, "category_id", "") = "11700"
       /\ Get(mout, "subcategory_id", "") = ""

\* C14 as stated: whatever the LLM answered, the category_id that leaves
\* the mapper is empty or one of the three ids of the table.
C14_CategoryIdFromTable ==
    mpc # "idle" => Get(mout, "category_id", "") \in TableIds \cup {""}

\* the part of C14 that holds: the multi-LLM path replaces the category_id
C14_HoldsForAnalysisResults ==
    mpc \in {"mapped", "analyzed"} => mout.category_id \in TableIds \cup {""}

\* two fractions are the same number
SameNumber(a, b) == a.num * b.den = b.num * a.den

Merged == kpc = "done" /\ kout.consensus_method # "raised"

\* C15: merging a single AnalysisResult r passes it through: the consensus
\* has r's product_type and r's confidence, and consensus_method is
\* single_model.
C15_SinglePassThrough ==
    Merged /\ Len(kresults) = 1 =>
        /\ kout.product_type = kresults[1].product_type
        /\ SameNumber(kout.confidence, Fraction(kresults[1].confidence, Unit))
        /\ kout.consensus_method = "single_model"

C15_Witness ==
    /\ Merged /\ Len(kresults) = 1 /\ kresults[1].confidence = 5
    /\ kout.confidence = Fraction(5, Unit) /\ kout.consensus_method = "single_model"

\* the accumulated weight of the value v of a field: the sum, over the
\* results with that value, of confidence / sum of all confidences
StatedWeight(field, v) == Fraction(Votes(kresults, field, v), TotalWeight(kresults))

\* no value of the field has a higher accumulated weight than v
Highest(field, v) ==
    \A i \in DOMAIN kresults :
        ~Less(Votes(kresults, field, v), Votes(kresults, field, kresults[i][field]),
              TotalWeight(kresults))

\* C16: for two or more results the consensus product_type and the
\* consensus category_id are each, independently, a value with the highest
\* accumulated weight, and the consensus confidence is the accumulated
\* weight of the winning product_type.
C16_WeightedVote ==
    Merged /\ Len(kresults) >= 2 =>
        /\ \E i \in DOMAIN kresults : kout.product_type = kresults[i].product_type
        /\ \E i \in DOMAIN kresults : kout.category_id = kresults[i].category_id
        /\ Highest("product_type", kout.product_type)
        /\ Highest("category_id", kout.category_id)
        /\ SameNumber(kout.confidence, StatedWeight("product_type", kout.product_type))
        /\ kout.consensus_method = "weighted_voting"

\* the product type that wins the vote is not that of the most confident
\* result, and the category comes from another result than the product type
C16_Witness ==
    /\ Merged /\ Len(kresults) = 3
    /\ kout.product_type # BestResult(kresults).product_type
    /\ \A i \in DOMAIN kresults :
          kresults[i].product_type = kout.product_type
              => kresults[i].category_id # kout.category_id

\* C17 as stated: the confidence of every ConsensusResult lies in [0, 1].
C17_ConfidenceInUnitInterval ==
    Merged =>
        /\ ~Less(kout.confidence.num, 0, kout.confidence.den)
        /\ ~Less(kout.confidence.den, kout.confidence.num, kout.confidence.den)

\* the part of C17 that holds: a vote among confidences that are all in
\* [0, 1] gives a confidence in [0, 1]
C17_HoldsForVotesInRange ==
    /\ Merged /\ Len(kresults) >= 2
    /\ \A i \in DOMAIN kresults : kresults[i].confidence \in 0..Unit
    => /\ ~Less(kout.confidence.num, 0, kout.confidence.den)
       /\ ~Less(kout.confidence.den, kout.confidence.num, kout.confidence.den)

\* C18 as stated: for every template header and whatever metadata fields
\* are present, a row that fill_row emits has exactly the columns of the
\* template as its keys, in the same order.
C18_RowKeysAreTemplateColumns ==
    rpc # "idle" /\ ~rout.raised => rout.keys = rheaders

\* the part of C18 that holds: a template that has every column fill_row
\* assigns gets rows with exactly its columns, in its order, unless
\* custom_html names a field the metadata does not have
C18_HoldsForFullTemplates ==
    /\ rpc # "idle" /\ ~rout.raised
    /\ \A i \in DOMAIN AssignedColumns : AssignedColumns[i] \in Columns(rheaders)
    => rout.keys = rheaders

C18_FullTemplateFilled ==
    /\ rpc = "filled" /\ ~rout.raised /\ Len(rheaders) = 7 /\ rheaders[1] = "Subtitle"
    /\ rmeta = EmptyMap /\ rout.keys = rheaders

\* C19 as stated: in the vision composite both images have been scaled to
\* one common height and stand side by side without padding: the height of
\* the composite is the height of each of the two scaled images.
C19_CommonHeightNoPadding ==
    ipc = "combined" =>
        /\ iout.front.h = iout.h /\ iout.back.h = iout.h
        /\ iout.front.y = 0 /\ iout.back.y = 0
        /\ iout.w = iout.front.w + iout.back.w

\* what does hold: the composite is as high as the higher of the two
\* resized images and as wide as both, the front at the left
C19_HeightOfTheHigher ==
    ipc = "combined" =>
        /\ iout.h = (IF iout.front.h >= iout.back.h THEN iout.front.h ELSE iout.back.h)
        /\ iout.h <= MaxHeightPx
        /\ iout.w = iout.front.w + iout.back.w
        /\ iout.front.x = 0 /\ iout.back.x = iout.front.w

\* a composite with canvas above and below the lower image
C19_PaddedComposite ==
    ipc = "combined" /\ iout.front.h = 600 /\ iout.back.h = 1600 /\ iout.front.y = 500

Built == {m \in 1..MaxManagers : fcfg[m].built}

\* every value stored with set on a ConfigManager is what get returns on it
SameManager ==
    \A m \in Built : \A k \in DOMAIN fset[m] : Get(fcfg[m].config, k, EmptyStr) = fset[m][k]

FaithfulValues == {"str test_value", "bool True"}

C21_ReturnsWithoutExhaustingTheStack ==
    xfn = "enhanced" =>
        /\ xdepth < RecursionLimit
        /\ xpc = "done" => xres.kind = "return"

\* with a key the fallback is entered at most once and the call returns
C21_BoundedWithKey ==
    xfn = "enhanced" /\ xkey =>
        /\ xdepth <= 2
        /\ xpc = "done" => xres.kind = "return"

\* without a key the call ends only when the interpreter refuses a frame
C21_StackExhausted ==
    /\ xfn = "enhanced" /\ ~xkey /\ xpc = "done"
    /\ xdepth = RecursionLimit /\ xres.kind = "raise"

\* C22: an upload is reported as successful only if, when it returns, no
\* local commit is missing on the remote.
C22_SuccessMeansPushed ==
    hby # "none" /\ hres.success => hahead = 0

\* an upload that itself committed reports success only after its push
C22_HoldsWhenItCommitted ==
    hby # "none" /\ hres.success /\ hres.files > 0 => hahead = 0

\* success is reported while the commit of an earlier upload is unpushed
C22_UnpushedCommitReportedUploaded ==
    /\ hby = "handler" /\ hres.success /\ hres.message = "No changes to upload"
    /\ hahead = 1 /\ ~hdirty

\* the tasks of the batch whose run_solar_panel_processing failed
FailedItems == {i \in DOMAIN wtask : wtask[i].pc = "ended" /\ ~wtask[i].success}

\* C23: when the batch completes, processed + failed is the number of image
\* files, and every item whose processing failed is counted as failed.
C23_FailedItemsCountedFailed ==
    wdone.sent /\ wdone.success =>
        /\ wdone.processed + wdone.failed = wdone.total
        /\ wdone.failed = Cardinality(FailedItems)

\* the two counters do add up to the number of image files
C23_CountsAddUp ==
    wdone.sent /\ wdone.success => wdone.processed + wdone.failed = wdone.total

\* a batch in which every item failed reports all of them as processed
C23_AllFailedAllProcessed ==
    /\ wdone.sent /\ wdone.success /\ wdone.total = 2
    /\ Cardinality(FailedItems) = 2 /\ wdone.processed = 2 /\ wdone.failed = 0

\* C24: once a processing run has completed, an Export to CSV for which the
\* user names a file and the template is on disk writes a CSV file with one
\* row per completed result.
C24_ExportWritesOneRowPerResult ==
    [][GExport(TRUE, TRUE) => gcsv'.written /\ gcsv'.rows = Len(gresults)]_vars

\* no export ever writes a file
C24_NothingWritten == ~gcsv.written

\* an export with a completed result, a named file and the template fails
C24_ExportFailed ==
    /\ gresults # <<>> /\ gcsv.log = "CSV export failed" /\ ~gcsv.written

\* the last broadcast reached every client that stayed connected throughout
\* and did not raise
Delivered == ~slast.raised /\ slast.stable \subseteq slast.got

\* C25: a broadcast of the terminal bridge or of the fixed server delivers
\* the message to every client that stays connected for its whole duration
\* and never fails, whatever connects or disconnects meanwhile.
C25_BroadcastReachesEveryClient ==
    skind \in {"bridge", "fixed"} /\ slast.msg > 0 => Delivered

\* the servers that iterate a copy of self.clients do so
C25_HoldsForACopy ==
    skind \in {"working", "fixed", "resilient"} /\ slast.msg > 0 => Delivered

\* a broadcast of the bridge raised and left out a client that was connected
C25_BridgeBroadcastRaised ==
    /\ skind = "bridge" /\ slast.raised
    /\ \E c \in slast.stable : c \notin slast.got /\ sconn[c] = "open"

\* C26: once the connection handler of a client has finished, the client is
\* not in the client set of the server, however the connection ended.
C26_FinishedClientRemoved ==
    \A c \in Clients : sh[c].pc = "finished" => c \notin sclients

\* the handlers that register inside try, or never raise while registering
C26_HoldsForFixedAndResilient ==
    skind \in {"fixed", "resilient"} =>
        \A c \in Clients : sh[c].pc = "finished" => c \notin sclients

\* the bridge removes a client whose handler ended in wait_closed, also
\* after a broadcast removed it
C26_HoldsAfterWaitClosed ==
    skind = "bridge" =>
        \A c \in Clients :
            sh[c].pc = "finished" /\ c \in sclients => sh[c].raised /\ sconn[c] = "closed"

\* a handler ended by a failed welcome send and its client is still listed
C26_StaleClient ==
    \E c \in Clients :
        /\ skind = "working" /\ sh[c].pc = "finished" /\ sh[c].raised
        /\ c \in sclients /\ sconn[c] = "closed"

\* the messages a client received are in the order of their broadcast
InOrderOfBroadcast(c) ==
    \A i, j \in DOMAIN srecv[c] : i < j => srecv[c][i] < srecv[c][j]

\* C27: in the resilient server every client receives the messages in the
\* order in which they were broadcast.
C27_ReceivedInBroadcastOrder ==
    skind = "resilient" => \A c \in Clients : InOrderOfBroadcast(c)

\* the servers without a message queue keep the order
C27_HoldsWithoutReplay ==
    skind \in {"working", "fixed", "bridge"} => \A c \in Clients : InOrderOfBroadcast(c)

\* a broadcast overtook the replay of the queue
C27_BroadcastOvertookReplay ==
    \E c \in Clients : skind = "resilient" /\ srecv[c] = <<1, 3, 2>>

\* process_batch of the batch processor has returned for at least one file
PoolReturned ==
    /\ cenv.script = "pool" /\ cenv.n > 0 /\ cpc = "exited" /\ ~cintr
    /\ cexit \in {0, 2}

Untouched(role) ==
    LET f == File(blast.dir, role, blast.index)
    IN  IF f \in DOMAIN blast.before
        THEN f \in DOMAIN fs /\ fs[f] = blast.before[f]
        ELSE f \notin DOMAIN fs

\* C30: whenever process_image_set returns an empty result, none of the four
\* output files for that index has been created or overwritten.
C30_EmptyResultNoFiles ==
    blast.result = "empty" =>
        \A i \in DOMAIN SaveOrder : Untouched(SaveOrder[i])

\* it holds for the image paths that cannot be opened
C30_HoldsForUnreadableImages ==
    blast.result = "empty" /\ blast.fault \in {"makedirs", "open", "pad"} =>
        \A i \in DOMAIN SaveOrder : Untouched(SaveOrder[i])

\* the empty result of a call that overwrote the front image of another pair
C30_OverwrittenThenEmpty ==
    /\ blast.result = "empty" /\ blast.fault = "save_vision"
    /\ File(blast.dir, "front", blast.index) \in DOMAIN blast.before
    /\ fs[File(blast.dir, "front", blast.index)] # blast.before[File(blast.dir, "front", blast.index)]

\* the names get_image_pairs returned
Returned == UNION {{apairs[k][1], apairs[k][2]} : k \in DOMAIN apairs}

\* C29: get_image_pairs returns only raw input JPGs, never files generated by
\* the pipeline, also when a folder is processed again after an earlier run
\* wrote its output files into it.
C29_OnlyRawInputsReturned == Returned \subseteq araw

\* it holds for the vision and the final images
C29_NoVisionOrFinalReturned ==
    \A f \in Returned : f.prefix \notin {"vision_", "final_"} /\ f.ext # ".png"

\* the second listing of a subfolder pairs the front and back images of the first
C29_OutputsPairedAsInputs ==
    /\ aruns = 2 /\ apc = "pair"
    /\ \E k \in DOMAIN apairs :
          apairs[k] = <<OutputName("back", 0), OutputName("front", 0)>>
==========================================================================
